---- MODULE Spec2Model ----
(***************************************************************************)
(* Model of the excalibur-ui widget toolkit: the UIFocusManager registry,  *)
(* the interaction flags of the interactive widgets (UIButton, UISwitch,   *)
(* UISlider, UITextInput), the UIRadioGroup coordinator and the            *)
(* UITabbedPanel active-tab coordinator.                                   *)
(*                                                                         *)
(* Every handler of the source is one action.  A handler that calls other  *)
(* methods synchronously (manager.setFocus -> widget.loseFocus -> ...) is  *)
(* computed by operators over a record "st" holding the whole widget world;*)
(* the action commits the record the handler ends with.  What an event     *)
(* listener can observe while a handler is still running is kept in "log": *)
(* one entry per emitted event, with a snapshot taken at the emit.         *)
(***************************************************************************)
EXTENDS Integers, Sequences, FiniteSets, TLC

VARIABLES
  components,      \* UIFocusManager.components: tabStopIndex -> widget
  currentTabIndex, \* UIFocusManager.currentTabIndex
  manager,         \* widget.manager is set (back-reference to the manager)
  enabled,         \* widget._enabled
  focused,         \* widget._isFocused
  hovered,         \* widget._isHovered (UIButton, UISwitch)
  isPressed,       \* UIButton.isPressed
  dragging,        \* UISlider.dragging
  state,           \* UIButton.state / UITextInput.state
  ignoreLeave,     \* UIButton.ignoreLeave
  timers,          \* pending setTimeout callbacks of UIButton.onClick: remaining ms
  log,             \* events emitted by the handler that ran last, with snapshots
  last,            \* the handler that ran last: [op, w, arg]
  recent,          \* the pointer events delivered to the button lately
  checkboxes,      \* UIRadioGroup.checkboxes
  selectedIndex,   \* UIRadioGroup._selectedIndex
  allowDeselect,   \* UIRadioGroup.allowDeselect
  checked,         \* UICheckbox._checked
  listeners,       \* UICheckboxChanged listeners the group put on a checkbox
  groupLog,        \* UIRadioGroupChanged events of the call that ran last
  initialIndex,    \* UIRadioGroupConfig.selectedIndex the group was created with
  tabs,            \* UITabbedPanel.tabs / tabContents: the ids, in insertion order
  activeTabId,     \* UITabbedPanel.activeTabId
  isVisible,       \* UITabContent.graphics.isVisible, per tab id
  isTabActive,     \* UITab.isTabActive, per tab id
  tabLog,          \* events of the tabbed panel call that ran last
  wvalue,          \* UICheckbox._checked / UISwitch._checked / UISlider._value
  edit,            \* UINumeric._inputText, _cursorPosition and _isEditing
  limits,          \* UINumeric._config.min and _config.max
  armed            \* the widget got a pointer-down and the pointer has not left
                   \* it or been released since

wvars == <<components, currentTabIndex, manager, enabled, focused, hovered,
           isPressed, dragging, state, ignoreLeave, timers, log, wvalue, edit,
           limits>>

gvars == <<checkboxes, selectedIndex, allowDeselect, checked, listeners, groupLog,
           initialIndex>>

tvars == <<tabs, activeTabId, isVisible, isTabActive, tabLog>>

-----------------------------------------------------------------------------
(* The widgets of the scene.  "btn" and "sld" share tab stop 0.            *)

Widgets == {"btn", "sld", "sw", "txt"}

\* the scene with two more widgets, both left at the default tab stop -1:
\* a UICheckbox and a UINumeric
AllWidgets == Widgets \cup {"chk", "num"}

None == "none"

Kind(w) ==
  CASE w = "btn" -> "button"
    [] w = "sld" -> "slider"
    [] w = "sw"  -> "switch"
    [] w = "txt" -> "textinput"
    [] w = "chk" -> "checkbox"
    [] w = "num" -> "numeric"

tabStopIndex(w) ==
  CASE w = "btn" -> 0
    [] w = "sld" -> 0
    [] w = "sw"  -> 2
    [] w = "txt" -> 5
    [] w = "chk" -> -1
    [] w = "num" -> -1

NoTabIndex == -1

\* UISliderConfig of the slider of the scene: min, max, step
SliderMin == 0
SliderMax == 3
SliderStep == 2

POINTER_LEAVE_DELAY_MS == 50

\* granularity of the clock and number of timeouts that may be pending
TickMs == 25
MaxTimers == 2
MaxRecent == 3

-----------------------------------------------------------------------------
(* The world record the handlers compute on.                               *)

World ==
  [components |-> components, currentTabIndex |-> currentTabIndex,
   manager |-> manager, enabled |-> enabled, focused |-> focused,
   hovered |-> hovered, isPressed |-> isPressed, dragging |-> dragging,
   state |-> state, ignoreLeave |-> ignoreLeave, timers |-> timers,
   value |-> wvalue, edit |-> edit, limits |-> limits,
   log |-> <<>>, ctx |-> "none"]

Commit(st) ==
  \E s \in {st} :
    /\ components' = s.components
    /\ currentTabIndex' = s.currentTabIndex
    /\ manager' = s.manager
    /\ enabled' = s.enabled
    /\ focused' = s.focused
    /\ hovered' = s.hovered
    /\ isPressed' = s.isPressed
    /\ dragging' = s.dragging
    /\ state' = s.state
    /\ ignoreLeave' = s.ignoreLeave
    /\ timers' = s.timers
    /\ log' = s.log
    /\ wvalue' = s.value
    /\ edit' = s.edit
    /\ limits' = s.limits

Range(f) == {f[k] : k \in DOMAIN f}

\* get focused(): this.components.get(this.currentTabIndex)
MgrFocused(st) ==
  IF st.currentTabIndex \in DOMAIN st.components
    THEN st.components[st.currentTabIndex]
    ELSE None

\* emitter.emit(ev, {target: w}): listeners run here and see this snapshot
Emit(st, ev, w) ==
  [st EXCEPT !.log = Append(@,
     [ev |-> ev, target |-> w, ctx |-> st.ctx,
      focusedNow |-> {x \in Range(st.components) : st.focused[x]},
      mgrFocused |-> MgrFocused(st)])]

-----------------------------------------------------------------------------
(* UINumeric: the committed value, the edit buffer and the conversions     *)
(* between them.  Numbers are counted in hundredths; the format options    *)
(* are the defaults but for decimals: 1, so that a committed value may be  *)
(* finer than its formatted text: "," between thousands, "." before the    *)
(* decimals, no prefix and no suffix.                                      *)

\* UINumericConfig of the numeric input of the scene, in hundredths
NumMin == 0
NumMax == 200
NumStep == 100

\* parseFloat gave NaN
NaN == -1

DigitChars == <<"0", "1", "2", "3", "4", "5", "6", "7", "8", "9">>

IsDigit(ch) == \E d \in 1..10 : DigitChars[d] = ch

DigitValue(ch) == (CHOOSE d \in 1..10 : DigitChars[d] = ch) - 1

RECURSIVE DigitsOf(_)
\* the decimal digits of a natural number
DigitsOf(n) ==
  IF n < 10 THEN <<DigitChars[n + 1]>>
  ELSE Append(DigitsOf(n \div 10), DigitChars[(n % 10) + 1])

RECURSIVE NumberOf(_)
\* the natural number a sequence of digits spells, 0 for the empty one
NumberOf(ds) ==
  IF ds = <<>> THEN 0
  ELSE 10 * NumberOf(SubSeq(ds, 1, Len(ds) - 1)) + DigitValue(ds[Len(ds)])

RECURSIVE WithThousands(_)
\* intPart.replace(/\B(?=(\d{3})+(?!\d))/g, ","): the digits in groups of three
WithThousands(n) ==
  IF n < 1000 THEN DigitsOf(n)
  ELSE WithThousands(n \div 1000)
         \o <<",", DigitChars[((n \div 100) % 10) + 1], DigitChars[((n \div 10) % 10) + 1],
              DigitChars[(n % 10) + 1]>>

\* value.toFixed(1) (formatOptions.decimals is 1) as a count of tenths: the nearest one, a tie
\* going up (no value of the scene ends in 5 hundredths, where the binary
\* representation would decide)
ToFixed(v) == (v + 5) \div 10

\* UINumeric.formatNumber(value): value.toFixed(1) with the separators
formatNumber(v) ==
  WithThousands(ToFixed(v) \div 10) \o <<".", DigitChars[(ToFixed(v) % 10) + 1]>>

\* Number.prototype.toString(): no trailing zeros, no point for an integer
toString(v) ==
  IF v % 100 = 0 THEN DigitsOf(v \div 100)
  ELSE IF v % 10 = 0 THEN DigitsOf(v \div 100) \o <<".", DigitChars[((v \div 10) % 10) + 1]>>
  ELSE DigitsOf(v \div 100)
         \o <<".", DigitChars[((v \div 10) % 10) + 1], DigitChars[(v % 10) + 1]>>

\* the longest prefix of s made of digits
DigitPrefix(s) ==
  LET n == CHOOSE k \in 0..Len(s) :
             /\ \A i \in 1..k : IsDigit(s[i])
             /\ k < Len(s) => ~IsDigit(s[k + 1])
  IN  SubSeq(s, 1, n)

\* text.replace(thousandsSeparator, ""): the separators taken out
Cleaned(text) == SelectSeq(text, LAMBDA ch : ch # ",")

\* what parseFloat reads after the integer digits: the digits behind a point
FractionAfter(rest) ==
  IF rest # <<>> /\ rest[1] = "." THEN DigitPrefix(Tail(rest)) ELSE <<>>

\* the decimals parseFloat reads in a text without separators
FractionOf(cleaned) ==
  FractionAfter(SubSeq(cleaned, Len(DigitPrefix(cleaned)) + 1, Len(cleaned)))

\* the i-th decimal, 0 when the text has fewer
DigitAt(frac, i) == IF Len(frac) >= i THEN DigitValue(frac[i]) ELSE 0

\* parseFloat: the number the integer digits and the decimals spell, in
\* hundredths, NaN when there is no digit at all
parseFloat(int, frac) ==
  IF int = <<>> /\ frac = <<>> THEN NaN
  ELSE 100 * NumberOf(int) + 10 * DigitAt(frac, 1) + DigitAt(frac, 2)

\* UINumeric.parseNumber(text): the thousands separators are taken out and
\* parseFloat reads digits, then a point and digits, and stops at the first
\* character that fits neither; NaN when it read no digit.  The third and
\* later decimals are dropped here: the keys of the scene never type them.
parseNumber(text) == parseFloat(DigitPrefix(Cleaned(text)), FractionOf(Cleaned(text)))

\* the decimals past the second are all "0"
ZeroPastSecond(frac) == \A i \in 3..Len(frac) : frac[i] = "0"

\* the text has no decimal past the second that is not "0"
Representable(text) == ZeroPastSecond(FractionOf(Cleaned(text)))

Min(a, b) == IF a <= b THEN a ELSE b

\* Math.max(min, Math.min(max, value))
clampBetween(min, max, v) == IF Min(max, v) > min THEN Min(max, v) ELSE min

\* UINumeric.clampValue, with the limits of the world st
numClampValueIn(st, v) == clampBetween(st.limits.min, st.limits.max, v)

\* UINumeric.clampValue, with the limits the input has now
numClampValue(v) == clampBetween(limits.min, limits.max, v)

\* setValue that clamps to min only
numSetValueNoMax(st, w, v) ==
  LET clamped == IF v < st.limits.min THEN st.limits.min ELSE v
  IN  IF st.value[w] # clamped
        THEN LET text == formatNumber(clamped)
             IN  Emit([st EXCEPT !.value[w] = clamped,
                                 !.edit.inputText = text,
                                 !.edit.cursorPosition = Min(@, Len(text)),
                                 !.edit.isEditing = FALSE],
                      "UINumericValueChanged", w)
        ELSE st

\* UINumeric.setValue(value)
numSetValue(st, w, v) ==
  LET clamped == numClampValueIn(st, v)
  IN  IF st.value[w] # clamped
        THEN LET text == formatNumber(clamped)
             IN  Emit([st EXCEPT !.value[w] = clamped,
                                 !.edit.inputText = text,
                                 !.edit.cursorPosition = Min(@, Len(text)),
                                 !.edit.isEditing = FALSE],
                      "UINumericValueChanged", w)
        ELSE st

\* commitValue that drops the buffer instead of committing it
commitValueDiscards(st, w) ==
  [st EXCEPT !.edit.inputText = formatNumber(st.value[w]),
             !.edit.cursorPosition = Len(formatNumber(st.value[w])),
             !.edit.isEditing = FALSE]

\* commitValue that reads a buffer that does not parse as 0, as Number("") would
commitValueInvalidAsZero(st, w) ==
  [numSetValue(st, w, IF parseNumber(st.edit.inputText) # NaN
                        THEN parseNumber(st.edit.inputText) ELSE 0)
     EXCEPT !.edit.isEditing = FALSE]

\* UINumeric.commitValue()
commitValue(st, w) ==
  LET parsed == parseNumber(st.edit.inputText)
      s1 == IF parsed # NaN THEN numSetValue(st, w, parsed)
            ELSE [st EXCEPT !.edit.inputText = formatNumber(st.value[w])]
  IN  [s1 EXCEPT !.edit.cursorPosition = Len(s1.edit.inputText), !.edit.isEditing = FALSE]

\* UINumeric.getDisplayText()
getDisplayText == IF edit.isEditing THEN edit.inputText ELSE formatNumber(wvalue["num"])

-----------------------------------------------------------------------------
(* Widget methods.                                                         *)

\* updateState with the hovered flag tested before the pressed flag
updateStateHoverFirst(st, w) ==
  IF ~st.enabled[w] THEN [st EXCEPT !.state[w] = "disabled"]
  ELSE IF st.hovered[w] THEN [st EXCEPT !.state[w] = "hovered"]
  ELSE IF st.isPressed[w] THEN [st EXCEPT !.state[w] = "pressed"]
  ELSE [st EXCEPT !.state[w] = "idle"]

\* UIButton.updateState
updateState(st, w) ==
  IF ~st.enabled[w] THEN [st EXCEPT !.state[w] = "disabled"]
  ELSE IF st.isPressed[w] THEN [st EXCEPT !.state[w] = "pressed"]
  ELSE IF st.hovered[w] THEN [st EXCEPT !.state[w] = "hovered"]
  ELSE [st EXCEPT !.state[w] = "idle"]

\* focus() of each widget class
focus(st, w) ==
  CASE Kind(w) = "button" ->
         IF ~st.enabled[w] THEN st
         ELSE updateState(Emit([st EXCEPT !.focused[w] = TRUE], "UIButtonFocused", w), w)
    [] Kind(w) = "switch" ->
         Emit([st EXCEPT !.focused[w] = TRUE], "UISwitchFocused", w)
    [] Kind(w) = "slider" ->
         IF st.focused[w] THEN st
         ELSE Emit([st EXCEPT !.focused[w] = TRUE], "UISliderFocused", w)
    [] Kind(w) = "textinput" ->
         IF ~st.enabled[w] THEN st
         ELSE IF st.focused[w] THEN st
         ELSE Emit([st EXCEPT !.focused[w] = TRUE, !.state[w] = "focused"],
                   "UITextInputFocused", w)
    [] Kind(w) = "checkbox" ->
         IF ~st.enabled[w] THEN st
         ELSE Emit([st EXCEPT !.focused[w] = TRUE], "UICheckboxFocused", w)
    [] Kind(w) = "numeric" ->
         IF ~st.enabled[w] THEN st
         ELSE IF st.focused[w] THEN st
         ELSE Emit([st EXCEPT !.focused[w] = TRUE, !.state[w] = "focused",
                              !.edit = [inputText |-> toString(st.value[w]),
                                        cursorPosition |-> Len(toString(st.value[w])),
                                        isEditing |-> TRUE]],
                   "UINumericFocused", w)

\* loseFocus() of each widget class
loseFocus(st, w) ==
  CASE Kind(w) = "button" ->
         IF ~st.enabled[w] THEN st
         ELSE updateState(Emit([st EXCEPT !.focused[w] = FALSE], "UIButtonUnfocused", w), w)
    [] Kind(w) = "switch" ->
         Emit([st EXCEPT !.focused[w] = FALSE], "UISwitchUnfocused", w)
    [] Kind(w) = "slider" ->
         IF ~st.focused[w] THEN st
         ELSE Emit([st EXCEPT !.focused[w] = FALSE], "UISliderUnfocused", w)
    [] Kind(w) = "textinput" ->
         IF ~st.enabled[w] THEN st
         ELSE IF ~st.focused[w] THEN st
         ELSE Emit([st EXCEPT !.focused[w] = FALSE, !.state[w] = "normal"],
                   "UITextInputUnfocused", w)
    [] Kind(w) = "checkbox" ->
         IF ~st.enabled[w] THEN st
         ELSE Emit([st EXCEPT !.focused[w] = FALSE], "UICheckboxUnfocused", w)
    [] Kind(w) = "numeric" ->
         IF ~st.enabled[w] THEN st
         ELSE IF ~st.focused[w] THEN st
         ELSE LET s1 == IF st.edit.isEditing THEN commitValue(st, w) ELSE st
              IN  Emit([s1 EXCEPT !.focused[w] = FALSE, !.state[w] = "normal",
                                  !.edit.isEditing = FALSE,
                                  !.edit.inputText = formatNumber(s1.value[w])],
                       "UINumericUnfocused", w)

\* the Unfocused event of each widget class
UnfocusedEvents == {"UIButtonUnfocused", "UISwitchUnfocused", "UISliderUnfocused",
                    "UITextInputUnfocused", "UICheckboxUnfocused", "UINumericUnfocused"}

\* onEnabled() hook of each widget class (UISwitch keeps the empty default)
onEnabled(st, w) ==
  CASE Kind(w) = "button" -> Emit(st, "UIButtonEnabled", w)
    [] Kind(w) = "switch" -> st
    [] Kind(w) = "slider" -> Emit(st, "UISliderEnabled", w)
    [] Kind(w) = "textinput" -> Emit([st EXCEPT !.state[w] = "normal"], "UITextInputEnabled", w)
    [] Kind(w) = "checkbox" -> Emit(st, "UICheckboxEnabled", w)
    [] Kind(w) = "numeric" -> Emit([st EXCEPT !.state[w] = "normal"], "UINumericEnabled", w)

\* onDisabled() hook of each widget class (UISwitch keeps the empty default)
onDisabled(st, w) ==
  CASE Kind(w) = "button" ->
         Emit([st EXCEPT !.hovered[w] = FALSE, !.focused[w] = FALSE], "UIButtonDisabled", w)
    [] Kind(w) = "switch" -> st
    [] Kind(w) = "slider" -> Emit([st EXCEPT !.dragging[w] = FALSE], "UISliderDisabled", w)
    [] Kind(w) = "textinput" ->
         LET s1 == IF st.focused[w] THEN loseFocus(st, w) ELSE st
         IN  Emit([s1 EXCEPT !.state[w] = "disabled"], "UITextInputDisabled", w)
    [] Kind(w) = "checkbox" ->
         Emit([st EXCEPT !.focused[w] = FALSE], "UICheckboxDisabled", w)
    [] Kind(w) = "numeric" ->
         LET s1 == IF st.focused[w] THEN loseFocus(st, w) ELSE st
         IN  Emit([s1 EXCEPT !.state[w] = "disabled"], "UINumericDisabled", w)

\* UIComponent.setEnabled
UIComponentSetEnabled(st, w, value) ==
  IF value # st.enabled[w]
    THEN LET s1 == [st EXCEPT !.enabled[w] = value]
         IN  IF value THEN onEnabled(s1, w) ELSE onDisabled(s1, w)
    ELSE st

\* InteractiveUIComponent.setEnabled
InteractiveSetEnabled(st, w, value) ==
  IF value # st.enabled[w]
    THEN LET s1 == IF ~value /\ st.focused[w] THEN loseFocus(st, w) ELSE st
         IN  UIComponentSetEnabled(s1, w, value)
    ELSE st

\* setEnabled() of each widget class
setEnabled(st, w, value) ==
  CASE Kind(w) = "button" -> updateState(InteractiveSetEnabled(st, w, value), w)
    [] Kind(w) = "switch" ->
         Emit(InteractiveSetEnabled(st, w, value),
              IF value THEN "UISwitchEnabled" ELSE "UISwitchDisabled", w)
    [] Kind(w) = "slider" -> InteractiveSetEnabled(st, w, value)
    [] Kind(w) = "textinput" -> InteractiveSetEnabled(st, w, value)
    [] Kind(w) = "checkbox" -> InteractiveSetEnabled(st, w, value)
    [] Kind(w) = "numeric" -> InteractiveSetEnabled(st, w, value)

-----------------------------------------------------------------------------
(* UIFocusManager.                                                         *)

\* Map.set(key, w)
MapSet(c, key, w) == [k \in DOMAIN c \cup {key} |-> IF k = key THEN w ELSE c[k]]

\* Map.delete(key)
MapDelete(c, key) == [k \in DOMAIN c \ {key} |-> c[k]]

\* register(comp): the body of the loop over the components given
register(st, w) ==
  [st EXCEPT !.components = MapSet(@, tabStopIndex(w), w), !.manager[w] = TRUE]

\* clearFocus()
clearFocus(st) ==
  LET f  == MgrFocused(st)
      s1 == IF f # None THEN loseFocus(st, f) ELSE st
  IN  [s1 EXCEPT !.currentTabIndex = NoTabIndex]

\* unregister(comp): the body of the loop over the components given
unregister(st, w) ==
  LET s1 == IF st.currentTabIndex = tabStopIndex(w)
              THEN clearFocus([st EXCEPT !.ctx = "clearFocus"])
              ELSE st
  IN  [s1 EXCEPT !.components = MapDelete(@, tabStopIndex(w))]

\* setFocus with the index switched before the old widget is blurred
setFocusSwitchFirst(st, w) ==
  IF MgrFocused(st) = w THEN st
  ELSE LET s0 == [st EXCEPT !.ctx = "setFocus"]
           f  == MgrFocused(s0)
           s1 == [s0 EXCEPT !.currentTabIndex = tabStopIndex(w)]
           s2 == IF f # None THEN loseFocus(s1, f) ELSE s1
           s3 == focus(s2, w)
       IN  [s3 EXCEPT !.ctx = st.ctx]

\* setFocus(component)
setFocus(st, w) ==
  IF MgrFocused(st) = w THEN st
  ELSE LET s0 == [st EXCEPT !.ctx = "setFocus"]
           f  == MgrFocused(s0)
           s1 == IF f # None THEN loseFocus(s0, f) ELSE s0
           s2 == [s1 EXCEPT !.currentTabIndex = tabStopIndex(w)]
           s3 == focus(s2, w)
       IN  [s3 EXCEPT !.ctx = st.ctx]

RECURSIVE SortedSeq(_)
\* Array.from(keys).sort((a, b) => a - b)
SortedSeq(S) ==
  IF S = {} THEN <<>>
  ELSE LET m == CHOOSE x \in S : \A y \in S : x <= y
       IN  <<m>> \o SortedSeq(S \ {m})

\* Array.indexOf, 0-based, -1 when absent
IndexOf(s, x) ==
  IF \E i \in 1..Len(s) : s[i] = x
    THEN (CHOOSE i \in 1..Len(s) : s[i] = x) - 1
    ELSE -1

\* the % operator of JavaScript (the sign of the dividend)
JsRem(a, n) == IF a >= 0 THEN a % n ELSE -((-a) % n)

\* moveFocus(forward)
moveFocus(st, forward) ==
  IF DOMAIN st.components = {} THEN st
  ELSE LET sorted == SortedSeq(DOMAIN st.components)
           n == Len(sorted)
           currentPos == IndexOf(sorted, st.currentTabIndex)
           pos == IF st.currentTabIndex = NoTabIndex
                    THEN (IF forward THEN 0 ELSE n - 1)
                    ELSE (IF forward THEN JsRem(currentPos + 1, n)
                                     ELSE JsRem(currentPos - 1 + n, n))
       IN  \* sorted[pos] is undefined for a negative pos: components.get gives nothing
           IF pos \in 0..(n - 1)
             THEN setFocus(st, st.components[sorted[pos + 1]])
             ELSE st

-----------------------------------------------------------------------------
(* Pointer handlers.                                                       *)

\* onPointerDown of each widget class
onPointerDown(st, w) ==
  CASE Kind(w) = "button" ->
         IF ~st.enabled[w] THEN st
         ELSE LET s1 == updateState(Emit([st EXCEPT !.isPressed[w] = TRUE], "UIButtonDown", w), w)
              IN  IF s1.manager[w] THEN setFocus(s1, w) ELSE s1
    [] Kind(w) = "switch" ->
         IF ~st.enabled[w] THEN st
         ELSE LET s1 == Emit(st, "UISwitchDown", w)
              IN  IF s1.manager[w] THEN setFocus(s1, w) ELSE s1
    [] Kind(w) = "textinput" ->
         IF ~st.enabled[w] THEN st
         ELSE LET s1 == focus(st, w)
              IN  IF s1.manager[w] THEN setFocus(s1, w) ELSE s1
    [] Kind(w) = "checkbox" ->
         IF ~st.enabled[w] THEN st
         ELSE LET s1 == Emit(st, "UICheckboxDown", w)
              IN  IF s1.manager[w] THEN setFocus(s1, w) ELSE s1
    [] Kind(w) = "numeric" ->
         IF ~st.enabled[w] THEN st
         ELSE LET s1 == focus(st, w)
              IN  IF s1.manager[w] THEN setFocus(s1, w) ELSE s1

\* onHover of UIButton and UISwitch
onHover(st, w) ==
  CASE Kind(w) = "button" ->
         IF ~st.enabled[w] THEN st
         ELSE updateState(Emit([st EXCEPT !.hovered[w] = TRUE], "UIButtonHovered", w), w)
    [] Kind(w) = "switch" ->
         Emit([st EXCEPT !.hovered[w] = TRUE], "UISwitchHovered", w)

\* onUnhover of UIButton and UISwitch
onUnhover(st, w) ==
  CASE Kind(w) = "button" ->
         IF ~st.enabled[w] THEN st
         ELSE IF st.ignoreLeave[w] THEN st
         ELSE updateState([Emit(st, "UIButtonUnhovered", w) EXCEPT !.hovered[w] = FALSE], w)
    [] Kind(w) = "switch" ->
         Emit([st EXCEPT !.hovered[w] = FALSE], "UISwitchUnhovered", w)

\* onClick with the hover test at release left out
onClickNoHoverTest(st, w) ==
  IF ~st.enabled[w] THEN st
  ELSE LET wasPressed == st.isPressed[w]
           s1 == [st EXCEPT !.isPressed[w] = FALSE, !.ignoreLeave[w] = TRUE,
                            !.timers = Append(@, POINTER_LEAVE_DELAY_MS)]
           s2 == Emit(updateState(s1, w), "UIButtonUp", w)
       IN  IF wasPressed THEN Emit(s2, "UIButtonClicked", w) ELSE s2

\* UIButton.onClick, the pointer-up handler: setTimeout(..., POINTER_LEAVE_DELAY_MS)
\* leaves one more callback pending; callback() changes nothing of the widget
onClick(st, w) ==
  IF ~st.enabled[w] THEN st
  ELSE LET wasPressed == st.isPressed[w]
           s1 == [st EXCEPT !.isPressed[w] = FALSE, !.ignoreLeave[w] = TRUE,
                            !.timers = Append(@, POINTER_LEAVE_DELAY_MS)]
           s2 == Emit(updateState(s1, w), "UIButtonUp", w)
       IN  IF wasPressed /\ s2.hovered[w] THEN Emit(s2, "UIButtonClicked", w) ELSE s2

\* the callback of the setTimeout in UIButton.onClick
timeoutCallback(st, w) ==
  [st EXCEPT !.ignoreLeave[w] = FALSE, !.timers = Tail(@)]

Keys == {"Space", "Enter", "KeyA"}

\* UIButton.onKeyDown
onKeyDown(st, w, key) ==
  IF ~st.enabled[w] THEN st
  ELSE IF ~st.focused[w] THEN st
  ELSE IF key # "Space" /\ key # "Enter" THEN st
  ELSE updateState(Emit([st EXCEPT !.isPressed[w] = TRUE], "UIButtonDown", w), w)

\* UIButton.onKeyUp
onKeyUp(st, w, key) ==
  IF ~st.enabled[w] THEN st
  ELSE IF ~st.focused[w] THEN st
  ELSE IF key # "Space" /\ key # "Enter" THEN st
  ELSE LET s1 == Emit(st, "UIButtonUp", w)
           s2 == IF s1.isPressed[w] THEN Emit(s1, "UIButtonClicked", w) ELSE s1
       IN  updateState([s2 EXCEPT !.isPressed[w] = FALSE], w)

-----------------------------------------------------------------------------
(* Pointer and keyboard handlers of UICheckbox, UISwitch and UISlider.     *)

InputKeys == Keys \cup {"Left", "Right"}

\* the event a checkbox or switch emits when its value changes
ChangedEvent(w) == IF Kind(w) = "checkbox" THEN "UICheckboxChanged" ELSE "UISwitchChanged"

\* set checked(v) of UICheckbox and UISwitch
setCheckedWidget(st, w, v) ==
  IF v # st.value[w] THEN Emit([st EXCEPT !.value[w] = v], ChangedEvent(w), w) ELSE st

\* toggle() of UICheckbox and UISwitch; UISwitch.toggle emits UISwitchChanged
\* once more after the setter
toggleWidget(st, w) ==
  CASE Kind(w) = "checkbox" -> setCheckedWidget(st, w, ~st.value[w])
    [] Kind(w) = "switch" ->
         Emit(setCheckedWidget(st, w, ~st.value[w]), "UISwitchChanged", w)

\* onClick of UICheckbox and UISwitch, the pointer-up handler
onClickToggle(st, w) ==
  CASE Kind(w) = "checkbox" ->
         IF ~st.enabled[w] THEN st ELSE toggleWidget(Emit(st, "UICheckboxUp", w), w)
    [] Kind(w) = "switch" ->
         IF ~st.enabled[w] THEN st ELSE toggleWidget(Emit(st, "UISwitchUp", w), w)

\* onKeyDown of UICheckbox and UISwitch
onKeyDownToggle(st, w, key) ==
  IF ~st.enabled[w] THEN st
  ELSE IF ~st.focused[w] THEN st
  ELSE IF key # "Space" /\ key # "Enter" THEN st
  ELSE toggleWidget(st, w)

\* UINumeric.isValidNumericInput(key), allowNegative and allowDecimal being
\* left at true
isValidNumericInput(st, key) ==
  \/ IsDigit(key)
  \/ key = "-" /\ st.edit.cursorPosition = 0
       /\ \A i \in 1..Len(st.edit.inputText) : st.edit.inputText[i] # "-"
  \/ key = "." /\ \A i \in 1..Len(st.edit.inputText) : st.edit.inputText[i] # "."

\* UINumeric.insertCharacter(char)
insertCharacter(st, char) ==
  LET text == st.edit.inputText
      pos == st.edit.cursorPosition
  IN  [st EXCEPT !.edit = [inputText |-> SubSeq(text, 1, pos) \o <<char>>
                                          \o SubSeq(text, pos + 1, Len(text)),
                           cursorPosition |-> pos + 1,
                           isEditing |-> TRUE]]

\* UINumeric.handleBackspace()
handleBackspace(st) ==
  LET text == st.edit.inputText
      pos == st.edit.cursorPosition
  IN  IF pos > 0
        THEN [st EXCEPT !.edit = [inputText |-> SubSeq(text, 1, pos - 1)
                                                \o SubSeq(text, pos + 1, Len(text)),
                                 cursorPosition |-> pos - 1,
                                 isEditing |-> TRUE]]
        ELSE st

\* UINumeric.handleDelete()
handleDelete(st) ==
  LET text == st.edit.inputText
      pos == st.edit.cursorPosition
  IN  IF pos < Len(text)
        THEN [st EXCEPT !.edit.inputText = SubSeq(text, 1, pos) \o SubSeq(text, pos + 2, Len(text)),
                        !.edit.isEditing = TRUE]
        ELSE st

\* UINumeric.increment() and decrement()
increment(st, w) == Emit(numSetValue(st, w, st.value[w] + NumStep), "UINumericIncrement", w)

decrement(st, w) == Emit(numSetValue(st, w, st.value[w] - NumStep), "UINumericDecrement", w)

\* setMax that does not re-clamp the value
numSetMaxNoReclamp(st, w, max) == [st EXCEPT !.limits.max = max]

\* UINumeric.setMin(min) and setMax(max)
numSetMin(st, w, min) == numSetValue([st EXCEPT !.limits.min = min], w, st.value[w])

numSetMax(st, w, max) == numSetValue([st EXCEPT !.limits.max = max], w, st.value[w])

\* an Escape that commits the buffer instead of dropping it
cancelEditingCommits(st, w) == commitValue(st, w)

\* the Escape branch of UINumeric.onKeyDown
cancelEditing(st, w) ==
  LET text == formatNumber(st.value[w])
  IN  focus([st EXCEPT !.edit = [inputText |-> text, cursorPosition |-> Len(text),
                                 isEditing |-> FALSE]], w)

\* UINumeric.onKeyDown
numericOnKeyDown(st, w, key) ==
  IF ~st.enabled[w] THEN st
  ELSE IF ~st.focused[w] THEN st
  ELSE IF key = "Backspace" THEN handleBackspace(st)
  ELSE IF key = "Delete" THEN handleDelete(st)
  ELSE IF key = "Left"
    THEN (IF st.edit.cursorPosition > 0 THEN [st EXCEPT !.edit.cursorPosition = @ - 1] ELSE st)
  ELSE IF key = "Right"
    THEN (IF st.edit.cursorPosition < Len(st.edit.inputText)
            THEN [st EXCEPT !.edit.cursorPosition = @ + 1] ELSE st)
  ELSE IF key = "Home" THEN [st EXCEPT !.edit.cursorPosition = 0]
  ELSE IF key = "End" THEN [st EXCEPT !.edit.cursorPosition = Len(st.edit.inputText)]
  ELSE IF key = "ArrowUp" THEN increment(st, w)
  ELSE IF key = "ArrowDown" THEN decrement(st, w)
  ELSE IF key = "Enter" THEN Emit(commitValue(st, w), "UINumericSubmit", w)
  ELSE IF key = "Escape" THEN cancelEditing(st, w)
  ELSE IF isValidNumericInput(st, key) THEN insertCharacter(st, key)
  ELSE st

\* the keys the onKeyDown of UITextInput and UINumeric is run with
EditKeys == {"Enter", "Escape", "KeyA"}

\* onKeyDown of UITextInput, as far as flags, state and events go (its text
\* and cursor are left out), and of UINumeric
editOnKeyDown(st, w, key) ==
  IF ~st.enabled[w] THEN st
  ELSE IF ~st.focused[w] THEN st
  ELSE CASE Kind(w) = "textinput" ->
              IF key = "Enter" THEN Emit(st, "UITextInputSubmit", w)
              ELSE IF key = "Escape" THEN loseFocus(st, w)
              ELSE st
         [] Kind(w) = "numeric" -> numericOnKeyDown(st, w, key)

\* Math.round(twice / 2 / step) * step, the pointer value given in halves
RoundToStep(twice) == ((twice + SliderStep) \div (2 * SliderStep)) * SliderStep

\* UISlider.clampValue
clampValue(v) == IF v < SliderMin THEN SliderMin ELSE IF v > SliderMax THEN SliderMax ELSE v

\* UISlider: set value(v), v given in halves
setSliderValue(st, w, twice) ==
  LET clamped == clampValue(RoundToStep(twice))
  IN  IF clamped # st.value[w]
        THEN Emit([st EXCEPT !.value[w] = clamped], "UISliderChanged", w)
        ELSE st

\* UISlider.onPointerDown, the pointer at the position that maps to twice / 2
sliderOnPointerDown(st, w, twice) ==
  IF ~st.enabled[w] THEN st
  ELSE LET s1 == setSliderValue([st EXCEPT !.dragging[w] = TRUE], w, twice)
           s2 == Emit(s1, "UISliderDown", w)
       IN  IF s2.manager[w] THEN setFocus(s2, w) ELSE s2

\* UISlider.onPointerMove
onPointerMove(st, w, twice) ==
  IF ~st.dragging[w] THEN st ELSE setSliderValue(st, w, twice)

\* UISlider.onPointerUp
onPointerUp(st, w) ==
  IF st.dragging[w] THEN Emit([st EXCEPT !.dragging[w] = FALSE], "UISliderUp", w) ELSE st

\* UISlider.onKeyDown
sliderOnKeyDown(st, w, key) ==
  IF ~st.focused[w] \/ ~st.enabled[w] THEN st
  ELSE IF key = "Left" THEN setSliderValue(st, w, 2 * (st.value[w] - SliderStep))
  ELSE IF key = "Right" THEN setSliderValue(st, w, 2 * (st.value[w] + SliderStep))
  ELSE st

-----------------------------------------------------------------------------
(* UICheckbox and UIRadioGroup.  A group is computed on as a record "g":   *)
(* the checked setter of a member notifies the group synchronously, so     *)
(* select, deselect and handleCheckboxChanged call each other.             *)

Checkboxes == {"cb0", "cb1", "cb2"}

\* listeners one checkbox may carry: add subscribes, remove never unsubscribes
MaxListeners == 2

\* UICheckboxChanged notifications one call may deliver, one inside the
\* other, before the call stack is used up
MaxChain == 16

Group ==
  [checkboxes |-> checkboxes, selectedIndex |-> selectedIndex,
   allowDeselect |-> allowDeselect, checked |-> checked,
   listeners |-> listeners, log |-> <<>>, notified |-> 0]

CommitGroup(g) ==
  /\ checkboxes' = g.checkboxes
  /\ selectedIndex' = g.selectedIndex
  /\ allowDeselect' = g.allowDeselect
  /\ checked' = g.checked
  /\ listeners' = g.listeners
  /\ groupLog' = g.log
  /\ initialIndex' = initialIndex

\* emitter.emit("UIRadioGroupChanged", {selectedIndex, previousIndex})
EmitChanged(g, sel, previousIndex) ==
  [g EXCEPT !.log = Append(@, [selectedIndex |-> sel, previousIndex |-> previousIndex])]

\* Array.splice(index, 1), index 0-based
Splice(s, index) == [i \in 1..(Len(s) - 1) |-> IF i <= index THEN s[i] ELSE s[i + 1]]

\* the call ran out of stack (RangeError): every frame above is left where
\* it stood, nothing after the throwing statement runs
Overflowed(g) == g.notified > MaxChain

RECURSIVE setChecked(_, _, _), emitCheckboxChanged(_, _, _, _)
RECURSIVE handleCheckboxChanged(_, _, _), select(_, _), deselect(_)

\* UICheckbox: set checked(value)
setChecked(g, c, value) ==
  IF value # g.checked[c]
    THEN emitCheckboxChanged([g EXCEPT !.checked[c] = value], c, value, g.listeners[c])
    ELSE g

\* emitter.emit("UICheckboxChanged", {checked}): the n listeners the group
\* subscribed in add run one after the other with the same payload; notified
\* counts the listener runs of the call
emitCheckboxChanged(g, c, value, n) ==
  IF n = 0 \/ Overflowed(g) THEN g
  ELSE IF g.notified = MaxChain THEN [g EXCEPT !.notified = @ + 1]
  ELSE emitCheckboxChanged(
         handleCheckboxChanged([g EXCEPT !.notified = @ + 1], c, value), c, value, n - 1)

\* handleCheckboxChanged that lets a member be unchecked: the branch that
\* checks it again is left out
handleCheckboxChangedNoRecheck(g, c, value) ==
  LET index == IndexOf(g.checkboxes, c)
  IN  IF index = -1 THEN g
      ELSE IF value THEN select(g, index)
      ELSE IF g.allowDeselect /\ index = g.selectedIndex THEN deselect(g)
      ELSE g

\* UIRadioGroup.handleCheckboxChanged(checkbox, checked)
handleCheckboxChanged(g, c, value) ==
  LET index == IndexOf(g.checkboxes, c)
  IN  IF index = -1 THEN g
      ELSE IF value THEN select(g, index)
      ELSE IF g.allowDeselect /\ index = g.selectedIndex THEN deselect(g)
      ELSE setChecked(g, c, TRUE)

\* UIRadioGroup.select(index)
select(g, index) ==
  IF index < 0 \/ index >= Len(g.checkboxes) THEN g
  ELSE IF g.selectedIndex = index THEN g
  ELSE LET previousIndex == g.selectedIndex
           g1 == IF previousIndex >= 0 /\ previousIndex < Len(g.checkboxes)
                   THEN setChecked(g, g.checkboxes[previousIndex + 1], FALSE)
                   ELSE g
           g2 == [g1 EXCEPT !.selectedIndex = index]
           g3 == setChecked(g2, g2.checkboxes[index + 1], TRUE)
       IN  IF Overflowed(g1) THEN g1
           ELSE IF Overflowed(g3) THEN g3
           ELSE EmitChanged(g3, g3.selectedIndex, previousIndex)

\* UIRadioGroup.deselect()
deselect(g) ==
  IF ~g.allowDeselect THEN g
  ELSE IF g.selectedIndex = -1 THEN g
  ELSE LET previousIndex == g.selectedIndex
           g1 == IF previousIndex >= 0 /\ previousIndex < Len(g.checkboxes)
                   THEN setChecked(g, g.checkboxes[g.selectedIndex + 1], FALSE)
                   ELSE g
       IN  IF Overflowed(g1) THEN g1
           ELSE EmitChanged([g1 EXCEPT !.selectedIndex = -1], -1, previousIndex)

\* add that does not promote a member that is already checked
addNoPromote(g, c) ==
  IF IndexOf(g.checkboxes, c) # -1 THEN g
  ELSE LET g1 == [g EXCEPT !.checkboxes = Append(@, c), !.listeners[c] = @ + 1]
           index == Len(g1.checkboxes) - 1
       IN  IF index = g1.selectedIndex THEN setChecked(g1, c, TRUE)
           ELSE setChecked(g1, c, FALSE)

\* UIRadioGroup.add(checkbox)
add(g, c) ==
  IF IndexOf(g.checkboxes, c) # -1 THEN g
  ELSE LET g1 == [g EXCEPT !.checkboxes = Append(@, c), !.listeners[c] = @ + 1]
           index == Len(g1.checkboxes) - 1
       IN  IF index = g1.selectedIndex THEN setChecked(g1, c, TRUE)
           ELSE IF g1.checked[c] THEN select(g1, index)
           ELSE setChecked(g1, c, FALSE)

\* remove that leaves selectedIndex as it is when an earlier member goes
removeNoShift(g, c) ==
  LET index == IndexOf(g.checkboxes, c)
  IN  IF index = -1 THEN g
      ELSE LET g1 == [g EXCEPT !.checkboxes = Splice(@, index)]
           IN  IF g1.selectedIndex = index THEN [g1 EXCEPT !.selectedIndex = -1]
               ELSE g1

\* UIRadioGroup.remove(checkbox)
remove(g, c) ==
  LET index == IndexOf(g.checkboxes, c)
  IN  IF index = -1 THEN g
      ELSE LET g1 == [g EXCEPT !.checkboxes = Splice(@, index)]
           IN  IF g1.selectedIndex = index THEN [g1 EXCEPT !.selectedIndex = -1]
               ELSE IF g1.selectedIndex > index THEN [g1 EXCEPT !.selectedIndex = @ - 1]
               ELSE g1

\* UICheckbox.toggle()
toggle(g, c) == setChecked(g, c, ~g.checked[c])

-----------------------------------------------------------------------------
(* UITabbedPanel and its UITab / UITabContent children, as a record "t".   *)

\* tab ids: strings, the empty string among them
TabIds == {"", "a", "b"}

\* activeTabId = null
Null == "<null>"

\* what "if (x)" makes of a string or null
Truthy(x) == x # Null /\ x # ""

Panel ==
  [tabs |-> tabs, activeTabId |-> activeTabId, isVisible |-> isVisible,
   isTabActive |-> isTabActive, log |-> <<>>]

CommitPanel(t) ==
  /\ tabs' = t.tabs
  /\ activeTabId' = t.activeTabId
  /\ isVisible' = t.isVisible
  /\ isTabActive' = t.isTabActive
  /\ tabLog' = t.log

\* tabbedEmitter.emit(ev, {tabId})
EmitTab(t, ev, tabId) == [t EXCEPT !.log = Append(@, [ev |-> ev, tabId |-> tabId])]

\* UITabContent.show()
show(t, tabId) == [t EXCEPT !.isVisible[tabId] = TRUE]

\* UITabContent.hide()
hide(t, tabId) == [t EXCEPT !.isVisible[tabId] = FALSE]

\* UITab.setActive(active)
setActive(t, tabId, active) == [t EXCEPT !.isTabActive[tabId] = active]

\* UITabbedPanel.setActiveTab(tabId)
setActiveTab(t, tabId) ==
  IF tabId \notin Range(t.tabs) THEN t
  ELSE LET cur == t.activeTabId
           t1 == IF Truthy(cur) /\ cur \in Range(t.tabs)
                   THEN hide(setActive(t, cur, FALSE), cur)
                   ELSE t
           t2 == show(setActive([t1 EXCEPT !.activeTabId = tabId], tabId, TRUE), tabId)
       IN  EmitTab(t2, "TabChanged", tabId)

\* addTab that activates the existing tab when the id is a duplicate and
\* makeActive is set
addTabDuplicateActivates(t, tabId, makeActive) ==
  IF tabId \in Range(t.tabs) THEN (IF makeActive THEN setActiveTab(t, tabId) ELSE t)
  ELSE LET t1 == [t EXCEPT !.tabs = Append(@, tabId),
                           !.isVisible = MapSet(@, tabId, FALSE),
                           !.isTabActive = MapSet(@, tabId, FALSE)]
           t2 == EmitTab(t1, "TabAdded", tabId)
       IN  IF makeActive \/ Len(t2.tabs) = 1 THEN setActiveTab(t2, tabId) ELSE t2

\* addTab that activates a new tab only when makeActive is set, the first
\* tab of the panel like any other
addTabFirstNotActivated(t, tabId, makeActive) ==
  IF tabId \in Range(t.tabs) THEN t
  ELSE LET t1 == [t EXCEPT !.tabs = Append(@, tabId),
                           !.isVisible = MapSet(@, tabId, FALSE),
                           !.isTabActive = MapSet(@, tabId, FALSE)]
           t2 == EmitTab(t1, "TabAdded", tabId)
       IN  IF makeActive THEN setActiveTab(t2, tabId) ELSE t2

\* UITabbedPanel.addTab(config, makeActive)
addTab(t, tabId, makeActive) ==
  IF tabId \in Range(t.tabs) THEN t
  ELSE LET t1 == [t EXCEPT !.tabs = Append(@, tabId),
                           !.isVisible = MapSet(@, tabId, FALSE),
                           !.isTabActive = MapSet(@, tabId, FALSE)]
           t2 == EmitTab(t1, "TabAdded", tabId)
       IN  IF makeActive \/ Len(t2.tabs) = 1 THEN setActiveTab(t2, tabId) ELSE t2

\* removeTab that activates no other tab when the active one goes
removeTabNoFallback(t, tabId) ==
  IF tabId \notin Range(t.tabs) THEN t
  ELSE LET t1 == [t EXCEPT !.tabs = Splice(@, IndexOf(@, tabId)),
                           !.isVisible = MapDelete(@, tabId),
                           !.isTabActive = MapDelete(@, tabId)]
           t2 == IF t1.activeTabId = tabId THEN [t1 EXCEPT !.activeTabId = Null] ELSE t1
       IN  EmitTab(t2, "TabRemoved", tabId)

\* UITabbedPanel.removeTab(tabId)
removeTab(t, tabId) ==
  IF tabId \notin Range(t.tabs) THEN t
  ELSE LET t1 == [t EXCEPT !.tabs = Splice(@, IndexOf(@, tabId)),
                           !.isVisible = MapDelete(@, tabId),
                           !.isTabActive = MapDelete(@, tabId)]
           t2 == IF t1.activeTabId = tabId
                   THEN LET t3 == [t1 EXCEPT !.activeTabId = Null]
                        IN  IF Len(t3.tabs) > 0 THEN setActiveTab(t3, t3.tabs[1]) ELSE t3
                   ELSE t1
       IN  EmitTab(t2, "TabRemoved", tabId)

-----------------------------------------------------------------------------
InitWidgets ==
  /\ components = <<>>
  /\ currentTabIndex = NoTabIndex
  /\ manager = [w \in AllWidgets |-> FALSE]
  /\ enabled = [w \in AllWidgets |-> TRUE]
  /\ focused = [w \in AllWidgets |-> FALSE]
  /\ hovered = [w \in AllWidgets |-> FALSE]
  /\ isPressed = [w \in AllWidgets |-> FALSE]
  /\ dragging = [w \in AllWidgets |-> FALSE]
  /\ state = [w \in AllWidgets |-> IF Kind(w) \in {"textinput", "numeric"} THEN "normal"
                                     ELSE "idle"]
  /\ ignoreLeave = [w \in AllWidgets |-> FALSE]
  /\ timers = <<>>
  /\ log = <<>>
  /\ last = [op |-> "init", w |-> None, arg |-> "none"]
  /\ recent = <<>>
  /\ wvalue = [w \in AllWidgets |-> IF Kind(w) = "slider" THEN SliderMin
                                      ELSE IF Kind(w) = "numeric" THEN clampBetween(NumMin, NumMax, 0)
                                      ELSE FALSE]
  /\ limits = [min |-> NumMin, max |-> NumMax]
  /\ edit = [inputText |-> formatNumber(clampBetween(NumMin, NumMax, 0)),
             cursorPosition |-> Len(formatNumber(clampBetween(NumMin, NumMax, 0))),
             isEditing |-> FALSE]
  /\ armed = [w \in AllWidgets |-> FALSE]

\* new UIRadioGroup({allowDeselect, selectedIndex}) and unchecked checkboxes
InitGroup(allow, sel) ==
  /\ checkboxes = <<>>
  /\ selectedIndex = sel
  /\ allowDeselect = allow
  /\ checked = [c \in Checkboxes |-> FALSE]
  /\ listeners = [c \in Checkboxes |-> 0]
  /\ groupLog = <<>>
  /\ initialIndex = sel

\* new UITabbedPanel(config)
InitPanel ==
  /\ tabs = <<>>
  /\ activeTabId = Null
  /\ isVisible = <<>>
  /\ isTabActive = <<>>
  /\ tabLog = <<>>

\* the group built with its default configuration
Init == InitWidgets /\ InitGroup(FALSE, -1) /\ InitPanel

\* the group built with any configuration
InitRadio ==
  /\ InitWidgets
  /\ \E allow \in BOOLEAN, sel \in {-1, 0} : InitGroup(allow, sel)
  /\ InitPanel

-----------------------------------------------------------------------------
(* Actions: one per call of the public API or handler run by the engine.   *)

Bool(b) == IF b THEN "true" ELSE "false"

\* the handler "op" ran on widget w with argument arg and ended in world st
Ran(op, w, arg, st) ==
  /\ Commit(st)
  /\ last' = [op |-> op, w |-> w, arg |-> arg]
  /\ UNCHANGED <<gvars, tvars>>

Register(w) ==
  /\ Ran("register", w, "none", register(World, w))
  /\ UNCHANGED <<recent, armed>>

Unregister(w) ==
  /\ Ran("unregister", w, "none", unregister(World, w))
  /\ UNCHANGED <<recent, armed>>

SetFocus(w) ==
  /\ Ran("setFocus", w, "none", setFocus(World, w))
  /\ UNCHANGED <<recent, armed>>

ClearFocus ==
  /\ Ran("clearFocus", None, "none", clearFocus([World EXCEPT !.ctx = "clearFocus"]))
  /\ UNCHANGED <<recent, armed>>

MoveFocus(forward) ==
  /\ Ran("moveFocus", None, Bool(forward), moveFocus(World, forward))
  /\ UNCHANGED <<recent, armed>>

PointerDown(w) ==
  /\ Kind(w) \in {"button", "switch", "textinput", "checkbox", "numeric"}
  /\ Ran("pointerdown", w, "none", onPointerDown([World EXCEPT !.ctx = "pointerdown"], w))
  /\ UNCHANGED <<recent, armed>>

PointerEnter(w) ==
  /\ Kind(w) \in {"button", "switch"}
  /\ Ran("pointerenter", w, "none", onHover(World, w))
  /\ UNCHANGED <<recent, armed>>

PointerLeave(w) ==
  /\ Kind(w) \in {"button", "switch"}
  /\ Ran("pointerleave", w, "none", onUnhover(World, w))
  /\ UNCHANGED <<recent, armed>>

SetEnabled(w, value) ==
  /\ Ran("setEnabled", w, Bool(value), setEnabled(World, w, value))
  /\ UNCHANGED <<recent, armed>>

\* the focus manager and its widgets, all enabled: manager calls and pointer-downs
Next ==
  \/ \E w \in Widgets : Register(w)
  \/ \E w \in Widgets : Unregister(w)
  \/ \E w \in Widgets : SetFocus(w)
  \/ ClearFocus
  \/ \E forward \in BOOLEAN : MoveFocus(forward)
  \/ \E w \in Widgets : PointerDown(w)

EnableWidgets == {"btn", "sw", "sld"}

\* widgets that get disabled and enabled again while the pointer and the
\* focus manager act on them
NextEnable ==
  \/ \E w \in EnableWidgets : Register(w)
  \/ \E w \in EnableWidgets : SetFocus(w)
  \/ \E forward \in BOOLEAN : MoveFocus(forward)
  \/ \E w \in EnableWidgets : PointerDown(w)
  \/ \E w \in EnableWidgets : PointerEnter(w)
  \/ \E w \in EnableWidgets : PointerLeave(w)
  \/ \E w \in EnableWidgets, value \in BOOLEAN : SetEnabled(w, value)

\* the button of the scene and what "recent" keeps of a handler run on it
Button == "btn"

Note(ev) == IF Len(recent) < MaxRecent THEN Append(recent, ev)
            ELSE Append(Tail(recent), ev)

BtnEnter ==
  /\ Ran("pointerenter", Button, "none", onHover(World, Button))
  /\ recent' = Note("other")
  /\ UNCHANGED armed

\* a leave that the button drops because ignoreLeave is set is noted as such
BtnLeave ==
  /\ Ran("pointerleave", Button, "none", onUnhover(World, Button))
  /\ recent' = Note(IF enabled[Button] /\ ignoreLeave[Button] THEN "leaveIgnored" ELSE "leave")
  /\ UNCHANGED armed

BtnDown ==
  /\ Ran("pointerdown", Button, "none", onPointerDown([World EXCEPT !.ctx = "pointerdown"], Button))
  /\ recent' = Note("down")
  /\ UNCHANGED armed

BtnUp ==
  /\ Len(timers) < MaxTimers
  /\ Ran("pointerup", Button, "none", onClick(World, Button))
  /\ recent' = Note("up")
  /\ UNCHANGED armed

BtnKeyDown(key) ==
  /\ Ran("keydown", Button, key, onKeyDown(World, Button, key))
  /\ recent' = Note("other")
  /\ UNCHANGED armed

BtnKeyUp(key) ==
  /\ Ran("keyup", Button, key, onKeyUp(World, Button, key))
  /\ recent' = Note("other")
  /\ UNCHANGED armed

BtnSetEnabled(value) ==
  /\ Ran("setEnabled", Button, Bool(value), setEnabled(World, Button, value))
  /\ recent' = Note("other")
  /\ UNCHANGED armed

BtnFocus ==
  /\ Ran("focus", Button, "none", focus(World, Button))
  /\ recent' = Note("other")
  /\ UNCHANGED armed

BtnLoseFocus ==
  /\ Ran("loseFocus", Button, "none", loseFocus(World, Button))
  /\ recent' = Note("other")
  /\ UNCHANGED armed

Max(a, b) == IF a >= b THEN a ELSE b

\* TickMs of time pass; a timeout that is due fires before more time passes
Tick ==
  /\ timers # <<>>
  /\ \A i \in 1..Len(timers) : timers[i] > 0
  /\ timers' = [i \in 1..Len(timers) |-> Max(0, timers[i] - TickMs)]
  /\ last' = [op |-> "tick", w |-> None, arg |-> "none"]
  /\ log' = <<>>
  /\ UNCHANGED <<components, currentTabIndex, manager, enabled, focused, hovered,
                 isPressed, dragging, state, ignoreLeave, recent, gvars, tvars,
                 wvalue, edit, limits, armed>>

\* the oldest pending timeout is due and runs its callback
TimerFire ==
  /\ timers # <<>>
  /\ timers[1] = 0
  /\ Ran("timeout", Button, "none", timeoutCallback(World, Button))
  /\ UNCHANGED <<recent, armed>>

\* one UIButton without a focus manager: pointer, keyboard, timers, setEnabled
NextButton ==
  \/ BtnEnter
  \/ BtnLeave
  \/ BtnDown
  \/ BtnUp
  \/ \E key \in Keys : BtnKeyDown(key)
  \/ \E key \in Keys : BtnKeyUp(key)
  \/ \E value \in BOOLEAN : BtnSetEnabled(value)
  \/ BtnFocus
  \/ BtnLoseFocus
  \/ Tick
  \/ TimerFire

-----------------------------------------------------------------------------
(* Actions on the radio group: the calls of its API and the toggles of its *)
(* members.                                                                *)

RanGroup(op, arg, g) ==
  /\ CommitGroup(g)
  /\ last' = [op |-> op, w |-> None, arg |-> arg]
  /\ UNCHANGED <<wvars, tvars>>

RgAdd(c) ==
  /\ listeners[c] < MaxListeners
  /\ RanGroup("add", c, add(Group, c))
  /\ UNCHANGED <<recent, armed>>

RgRemove(c) ==
  /\ RanGroup("remove", c, remove(Group, c))
  /\ UNCHANGED <<recent, armed>>

\* a member of the group is toggled (click, Space/Enter or toggle())
RgToggle(c) ==
  /\ c \in Range(checkboxes)
  /\ RanGroup("toggle", c, toggle(Group, c))
  /\ UNCHANGED <<recent, armed>>

RgSelect(index) ==
  /\ RanGroup("select", ToString(index), select(Group, index))
  /\ UNCHANGED <<recent, armed>>

RgDeselect ==
  /\ RanGroup("deselect", "none", deselect(Group))
  /\ UNCHANGED <<recent, armed>>

NextRadio ==
  \/ \E c \in Checkboxes : RgAdd(c)
  \/ \E c \in Checkboxes : RgRemove(c)
  \/ \E c \in Checkboxes : RgToggle(c)
  \/ \E index \in -1..Cardinality(Checkboxes) : RgSelect(index)
  \/ RgDeselect

\* the group with two checkboxes, each added, removed and added again once
\* more often than NextRadio lets it
ChainBoxes == {"cb0", "cb1"}

\* add(checkbox) of a checkbox that may carry listeners of earlier adds
RgAddAgain(c) ==
  /\ listeners[c] <= MaxListeners
  /\ RanGroup("add", c, add(Group, c))
  /\ UNCHANGED <<recent, armed>>

NextChain ==
  \/ \E c \in ChainBoxes : RgAddAgain(c)
  \/ \E c \in ChainBoxes : RgRemove(c)
  \/ \E c \in ChainBoxes : RgToggle(c)
  \/ \E index \in -1..Cardinality(ChainBoxes) : RgSelect(index)
  \/ RgDeselect

-----------------------------------------------------------------------------
(* Actions on the tabbed panel.                                            *)

RanPanel(op, arg, t) ==
  /\ CommitPanel(t)
  /\ last' = [op |-> op, w |-> None, arg |-> arg]
  /\ UNCHANGED <<wvars, gvars>>

\* the op left in "last" tells whether makeActive was passed as true
AddTab(tabId, makeActive) ==
  /\ RanPanel(IF makeActive THEN "addTabActive" ELSE "addTab", tabId,
              addTab(Panel, tabId, makeActive))
  /\ UNCHANGED <<recent, armed>>

RemoveTab(tabId) ==
  /\ RanPanel("removeTab", tabId, removeTab(Panel, tabId))
  /\ UNCHANGED <<recent, armed>>

SetActiveTab(tabId) ==
  /\ RanPanel("setActiveTab", tabId, setActiveTab(Panel, tabId))
  /\ UNCHANGED <<recent, armed>>

NextTabs ==
  \/ \E tabId \in TabIds, makeActive \in BOOLEAN : AddTab(tabId, makeActive)
  \/ \E tabId \in TabIds : RemoveTab(tabId)
  \/ \E tabId \in TabIds : SetActiveTab(tabId)

vars == <<components, currentTabIndex, manager, enabled, focused, hovered,
          isPressed, dragging, state, ignoreLeave, timers, log, last, recent,
          checkboxes, selectedIndex, allowDeselect, checked, listeners, groupLog,
          initialIndex, tabs, activeTabId, isVisible, isTabActive, tabLog, wvalue,
          edit, limits, armed>>

Spec == Init /\ [][Next]_vars

\* setFocus called with a widget that is registered at the time
SetFocusRegistered(w) ==
  /\ w \in Range(components)
  /\ SetFocus(w)

\* only register, setFocus and unregister calls, setFocus on registered widgets
NextReg ==
  \/ \E w \in Widgets : Register(w)
  \/ \E w \in Widgets : Unregister(w)
  \/ \E w \in Widgets : SetFocusRegistered(w)

SpecReg == Init /\ [][NextReg]_vars

SpecEnable == Init /\ [][NextEnable]_vars

SpecButton == Init /\ [][NextButton]_vars

\* the button with time that passes and timeouts that run: the event loop
\* runs every setTimeout callback once its delay is over
SpecButtonFair == SpecButton /\ WF_vars(Tick) /\ WF_vars(TimerFire)

SpecRadio == InitRadio /\ [][NextRadio]_vars

SpecChain == InitRadio /\ [][NextChain]_vars

SpecTabs == Init /\ [][NextTabs]_vars

-----------------------------------------------------------------------------
(* Properties.                                                             *)

RegisteredFocused == {w \in Range(components) : focused[w]}

\* C1: after each register, setFocus or unregister call, at most one widget
\* registered in the manager reports focused = true.
C1_AtMostOneRegisteredFocused == Cardinality(RegisteredFocused) <= 1

\* the members of the group that are checked
CheckedMembers == {i \in 1..Len(checkboxes) : checked[checkboxes[i]]}

\* C2: after every add, member toggle, select, deselect and remove on a radio
\* group of real checkboxes at most one member is checked, and after a member
\* was toggled to true it is the only checked one.
C2_AtMostOneMemberChecked ==
  /\ Cardinality(CheckedMembers) <= 1
  /\ (last.op = "toggle" /\ checked[last.arg])
       => \A i \in CheckedMembers : checkboxes[i] = last.arg

\* the content panes that are visible
VisiblePanes == {id \in DOMAIN isVisible : isVisible[id]}

\* C3: after every addTab, removeTab and setActiveTab, if a tab exists then
\* exactly one content pane is visible, the pane of the active tab.
C3_ExactlyOnePaneVisible ==
  Len(tabs) > 0 => VisiblePanes = {activeTabId}

\* C4: in every reachable state of every widget, enabled = false implies
\* hovered = false, pressed = false and focused = false.
C4_DisabledOverridesAll ==
  \A w \in Widgets : ~enabled[w] => (~hovered[w] /\ ~isPressed[w] /\ ~focused[w])

\* C5: after every focus manager operation, currentTabIndex is -1 or a key
\* of the registry.
C5_CurrentIndexRegistered ==
  currentTabIndex = NoTabIndex \/ currentTabIndex \in DOMAIN components

\* C6: setEnabled(false) on a widget that is hovered and pressed leaves the
\* state "disabled" with the hovered and the pressed flag cleared, and a
\* pointer-down while disabled changes no state and emits no Down event.
C6_DisableClearsFlags ==
  [][ /\ (hovered[Button] /\ isPressed[Button] /\ last'.op = "setEnabled" /\ last'.arg = "false")
         => (state'[Button] = "disabled" /\ ~hovered'[Button] /\ ~isPressed'[Button])
      /\ (~enabled[Button] /\ last'.op = "pointerdown")
         => (log' = <<>> /\ UNCHANGED <<enabled, focused, hovered, isPressed, state,
                                        ignoreLeave, timers, currentTabIndex, components>>)
    ]_vars

Emitted(ev) == Cardinality({i \in 1..Len(log) : log[i].ev = ev})

\* the handlers that ran last on the button, oldest first, end with this
RecentEndsWith(evs) ==
  /\ Len(recent) >= Len(evs)
  /\ \A i \in 1..Len(evs) : recent[Len(recent) - Len(evs) + i] \in evs[i]

RegisteredKeys == DOMAIN components

\* the index the claim expects moveFocus to select
ExpectedIndex(forward) ==
  LET higher == {k \in RegisteredKeys : k > currentTabIndex}
      lower  == {k \in RegisteredKeys : k < currentTabIndex}
      lowest == CHOOSE k \in RegisteredKeys : \A j \in RegisteredKeys : k <= j
      highest == CHOOSE k \in RegisteredKeys : \A j \in RegisteredKeys : k >= j
  IN  IF currentTabIndex = NoTabIndex THEN (IF forward THEN lowest ELSE highest)
      ELSE IF forward
        THEN (IF higher = {} THEN lowest ELSE CHOOSE k \in higher : \A j \in higher : k <= j)
        ELSE (IF lower = {} THEN highest ELSE CHOOSE k \in lower : \A j \in lower : k >= j)

\* C8: with widgets registered under distinct non-negative indices, all
\* enabled, moveFocus(true) with nothing focused selects the lowest index and
\* moveFocus(false) the highest; otherwise moveFocus selects the next higher
\* (forward) or next lower (backward) registered index, wrapping around.
C8_MoveFocusCyclic ==
  [][ \A forward \in BOOLEAN :
        (last'.op = "moveFocus" /\ last'.arg = Bool(forward) /\ RegisteredKeys # {}
           /\ \A w \in Range(components) : enabled[w] /\ tabStopIndex(w) >= 0)
        => currentTabIndex' = ExpectedIndex(forward)
    ]_vars

\* C9: at every point of a focus transfer, also inside the listeners of the
\* events emitted while a pointer-down or a setFocus call runs, at most one
\* widget of the focus manager reports focused = true.
C9_AtMostOneFocusedDuringTransfer ==
  last.op \in {"pointerdown", "setFocus"} =>
    /\ \A i \in 1..Len(log) : Cardinality(log[i].focusedNow) <= 1
    /\ Cardinality(RegisteredFocused) <= 1

\* the Unfocused events that setFocus made the previously focused widget emit
BlurEntries == {i \in 1..Len(log) : log[i].ctx = "setFocus" /\ log[i].ev \in UnfocusedEvents}

\* C10 as claimed: while the previously focused widget's loseFocus runs inside
\* setFocus, the manager's focused accessor does not return that widget.
C10_BlurSeesIndexSwitched ==
  \A i \in BlurEntries : log[i].mgrFocused # log[i].target

\* C10 as amended: while the previously focused widget emits its Unfocused
\* event inside setFocus, the index is not switched yet: the manager's focused
\* accessor still returns that widget, which already reports focused = false.
C10_BlurBeforeIndexSwitch ==
  \A i \in BlurEntries :
    log[i].mgrFocused = log[i].target /\ log[i].target \notin log[i].focusedNow

\* C10 witness: setFocus moved the focus from one registered widget to another
\* one and the first emitted its Unfocused event on the way.
C10_Witness ==
  /\ last.op = "setFocus" /\ BlurEntries # {}
  /\ \E i \in BlurEntries : log[i].target \in Range(components) /\ log[i].target # last.w
  /\ last.w \in Range(components) /\ focused[last.w]

\* C11: if unregister(w) is called while the registered widget w reports
\* focused = true, then when unregister returns w reports focused = false,
\* currentTabIndex is -1 and w is no longer in the registry.
C11_UnregisterFocusedClearsFocus ==
  [][ \A w \in Widgets :
        (w \in Range(components) /\ focused[w]
           /\ last'.op = "unregister" /\ last'.w = w)
        => (~focused'[w] /\ currentTabIndex' = NoTabIndex /\ w \notin Range(components'))
    ]_vars

\* C12: a pointer-down on w right after unregister(w) changes neither the
\* manager's currentTabIndex nor the focused flag of any widget that is still
\* registered in the manager.
C12_PointerDownAfterUnregisterInert ==
  [][ \A w \in Widgets :
        (last.op = "unregister" /\ last.w = w /\ w \notin Range(components)
           /\ last'.op = "pointerdown" /\ last'.w = w)
        => /\ currentTabIndex' = currentTabIndex
           /\ \A x \in Range(components) : focused'[x] = focused[x]
    ]_vars

\* C13: after a pointer-down on an enabled widget that is registered with the
\* focus manager, that widget is the manager's focused widget and reports
\* focused = true.
C13_PointerDownTakesFocus ==
  (last.op = "pointerdown" /\ last.w \in Range(components) /\ enabled[last.w])
    => /\ currentTabIndex \in DOMAIN components
       /\ components[currentTabIndex] = last.w
       /\ focused[last.w]

-----------------------------------------------------------------------------
(* Keyboard navigation over a registry that holds a widget left at the     *)
(* default tab stop -1.                                                    *)

NavWidgets == {"chk", "sw", "txt"}

NextNav ==
  \/ \E w \in NavWidgets : Register(w)
  \/ \E w \in NavWidgets : Unregister(w)
  \/ \E w \in NavWidgets : SetFocusRegistered(w)
  \/ ClearFocus
  \/ \E forward \in BOOLEAN : MoveFocus(forward)

SpecNav == Init /\ [][NextNav]_vars

\* C14: moveFocus never gives focus to a registered widget whose tabStopIndex
\* is -1.
C14_MoveFocusSkipsMinusOne ==
  [][ \A w \in AllWidgets :
        (last'.op = "moveFocus" /\ w \in Range(components)
           /\ tabStopIndex(w) = -1 /\ ~focused[w])
        => ~focused'[w]
    ]_vars

\* C15: after setEnabled(false) followed at once by setEnabled(true) the
\* interaction state of the button is the default state "idle", whatever its
\* hovered, pressed and focused flags were before it was disabled.
C15_ReenableLandsOnDefault ==
  [][ (last.op = "setEnabled" /\ last.arg = "false" /\ last.w = Button
         /\ last'.op = "setEnabled" /\ last'.arg = "true" /\ last'.w = Button)
      => state'[Button] = "idle"
    ]_vars

-----------------------------------------------------------------------------
(* Widgets without a focus manager: pointer and keyboard input, focus() /  *)
(* loseFocus() calls and setEnabled.                                       *)

\* the checkbox and the switch
InputWidgets == {"chk", "sw"}

\* the switch and the slider
DragWidgets == {"sw", "sld"}

\* pointer positions over the slider, in halves of a value unit
PointerHalves == (2 * SliderMin)..(2 * SliderMax)

\* handler "op" ran on w; the pointer is then armed on w or not
RanInput(op, w, arg, st, arm) ==
  /\ Ran(op, w, arg, st)
  /\ armed' = [armed EXCEPT ![w] = arm]
  /\ UNCHANGED recent

InDown(w) ==
  /\ Kind(w) \in {"checkbox", "switch"}
  /\ RanInput("pointerdown", w, "none", onPointerDown(World, w), TRUE)

InSliderDown(w, twice) ==
  /\ Kind(w) = "slider"
  /\ RanInput("pointerdown", w, ToString(twice), sliderOnPointerDown(World, w, twice), TRUE)

InUp(w) ==
  /\ Kind(w) \in {"checkbox", "switch"}
  /\ RanInput("pointerup", w, "none", onClickToggle(World, w), FALSE)

InSliderUp(w) ==
  /\ Kind(w) = "slider"
  /\ RanInput("pointerup", w, "none", onPointerUp(World, w), FALSE)

InMove(w, twice) ==
  /\ Kind(w) = "slider"
  /\ RanInput("pointermove", w, ToString(twice), onPointerMove(World, w, twice), armed[w])

InEnter(w) ==
  /\ Kind(w) = "switch"
  /\ RanInput("pointerenter", w, "none", onHover(World, w), armed[w])

\* the pointer leaves the widget: only UISwitch listens to pointerleave
InLeave(w) ==
  /\ Kind(w) \in {"checkbox", "switch"}
  /\ RanInput("pointerleave", w, "none",
              IF Kind(w) = "switch" THEN onUnhover(World, w) ELSE World, FALSE)

InKeyDown(w, key) ==
  /\ Kind(w) \in {"checkbox", "switch"}
  /\ RanInput("keydown", w, key, onKeyDownToggle(World, w, key), armed[w])

\* a key is released: UICheckbox, UISwitch and UISlider subscribe to the
\* keyboard "press" event only, no handler runs
InKeyUp(w, key) ==
  /\ w \in AllWidgets
  /\ RanInput("keyup", w, key, World, armed[w])

InSliderKeyDown(w, key) ==
  /\ Kind(w) = "slider"
  /\ RanInput("keydown", w, key, sliderOnKeyDown(World, w, key), armed[w])

InSetEnabled(w, v) ==
  /\ w \in AllWidgets
  /\ RanInput("setEnabled", w, Bool(v), setEnabled(World, w, v), armed[w])

InFocus(w) ==
  /\ w \in AllWidgets
  /\ RanInput("focus", w, "none", focus(World, w), armed[w])

InLoseFocus(w) ==
  /\ w \in AllWidgets
  /\ RanInput("loseFocus", w, "none", loseFocus(World, w), armed[w])

NextInput ==
  \/ \E w \in InputWidgets : InDown(w)
  \/ \E w \in InputWidgets : InUp(w)
  \/ \E w \in InputWidgets : InEnter(w)
  \/ \E w \in InputWidgets : InLeave(w)
  \/ \E w \in InputWidgets, key \in InputKeys : InKeyDown(w, key)
  \/ \E w \in InputWidgets, key \in InputKeys : InKeyUp(w, key)
  \/ \E w \in InputWidgets, v \in BOOLEAN : InSetEnabled(w, v)
  \/ \E w \in InputWidgets : InFocus(w)
  \/ \E w \in InputWidgets : InLoseFocus(w)

NextDrag ==
  \/ \E w \in DragWidgets : InDown(w)
  \/ \E w \in DragWidgets, twice \in PointerHalves : InSliderDown(w, twice)
  \/ \E w \in DragWidgets : InUp(w)
  \/ \E w \in DragWidgets : InSliderUp(w)
  \/ \E w \in DragWidgets, twice \in PointerHalves : InMove(w, twice)
  \/ \E w \in DragWidgets : InEnter(w)
  \/ \E w \in DragWidgets : InLeave(w)
  \/ \E w \in DragWidgets, key \in InputKeys : InKeyDown(w, key)
  \/ \E w \in DragWidgets, key \in InputKeys : InSliderKeyDown(w, key)
  \/ \E w \in DragWidgets, key \in InputKeys : InKeyUp(w, key)
  \/ \E w \in DragWidgets, v \in BOOLEAN : InSetEnabled(w, v)
  \/ \E w \in DragWidgets : InFocus(w)
  \/ \E w \in DragWidgets : InLoseFocus(w)

\* the button, the text input and the numeric input
StateWidgets == {"btn", "txt", "num"}

\* pointer-up and key handlers of UIButton
PointerUp(w) ==
  /\ Kind(w) = "button"
  /\ Len(timers) < MaxTimers
  /\ Ran("pointerup", w, "none", onClick(World, w))
  /\ UNCHANGED <<recent, armed>>

KeyDown(w, key) ==
  /\ Kind(w) = "button"
  /\ Ran("keydown", w, key, onKeyDown(World, w, key))
  /\ UNCHANGED <<recent, armed>>

KeyUp(w, key) ==
  /\ Kind(w) = "button"
  /\ Ran("keyup", w, key, onKeyUp(World, w, key))
  /\ UNCHANGED <<recent, armed>>

\* key handler of UITextInput and UINumeric
EditKeyDown(w, key) ==
  /\ Kind(w) \in {"textinput", "numeric"}
  /\ Ran("keydown", w, key, editOnKeyDown(World, w, key))
  /\ UNCHANGED <<recent, armed>>

\* focus() and loseFocus() called on the widget itself
Focus(w) ==
  /\ Ran("focus", w, "none", focus(World, w))
  /\ UNCHANGED <<recent, armed>>

LoseFocus(w) ==
  /\ Ran("loseFocus", w, "none", loseFocus(World, w))
  /\ UNCHANGED <<recent, armed>>

\* widgets with an interaction state, without a focus manager
NextState ==
  \/ \E w \in StateWidgets : PointerDown(w)
  \/ \E w \in StateWidgets : PointerUp(w)
  \/ \E w \in StateWidgets : PointerEnter(w)
  \/ \E w \in StateWidgets : PointerLeave(w)
  \/ \E w \in StateWidgets, key \in Keys : KeyDown(w, key)
  \/ \E w \in StateWidgets, key \in Keys : KeyUp(w, key)
  \/ \E w \in StateWidgets, key \in EditKeys : EditKeyDown(w, key)
  \/ \E w \in StateWidgets, value \in BOOLEAN : SetEnabled(w, value)
  \/ \E w \in StateWidgets : Focus(w)
  \/ \E w \in StateWidgets : LoseFocus(w)
  \/ Tick
  \/ TimerFire

\* the numeric input of the scene
Numeric == "num"

\* keys pressed on the numeric input: the keys its handler knows, the
\* characters "1" and "." and a key that types nothing numeric
NumericKeys == {"Backspace", "Delete", "Left", "Right", "Home", "End", "ArrowUp",
                "ArrowDown", "Enter", "Escape", "1", ".", "KeyA"}

\* longest edit buffer a character is typed into
MaxText == 3

\* a key press on the numeric input; a character is typed only while the
\* buffer is shorter than MaxText and keeps to two decimals
NumericKeyDown(key) ==
  /\ (enabled[Numeric] /\ focused[Numeric] /\ key \in {"1", "."}
        /\ isValidNumericInput(World, key))
       => /\ Len(edit.inputText) < MaxText
          /\ Representable(insertCharacter(World, key).edit.inputText)
  /\ Ran("keydown", Numeric, key, numericOnKeyDown(World, Numeric, key))
  /\ UNCHANGED <<recent, armed>>

\* one UINumeric without a focus manager
NextNumeric ==
  \/ \E w \in {Numeric} : PointerDown(w)
  \/ \E w \in {Numeric} : Focus(w)
  \/ \E w \in {Numeric} : LoseFocus(w)
  \/ \E key \in NumericKeys : NumericKeyDown(key)
  \/ \E w \in {Numeric}, value \in BOOLEAN : SetEnabled(w, value)

\* a button and a text input under distinct tab stops, 0 and 5
AgreeWidgets == {"btn", "txt"}

\* focus manager calls, setEnabled calls and key presses on registered widgets
NextAgree ==
  \/ \E w \in AgreeWidgets : Register(w)
  \/ \E w \in AgreeWidgets : SetFocusRegistered(w)
  \/ ClearFocus
  \/ \E forward \in BOOLEAN : MoveFocus(forward)
  \/ \E w \in AgreeWidgets, value \in BOOLEAN : SetEnabled(w, value)
  \/ \E w \in AgreeWidgets, key \in Keys : KeyDown(w, key)
  \/ \E w \in AgreeWidgets, key \in EditKeys : EditKeyDown(w, key)

Slider == "sld"

\* the values slider.value is assigned, in halves: from below min to above max
AssignedHalves == (2 * SliderMin - 2)..(2 * SliderMax + 2)

\* slider.value = v, and the pointer and keyboard handlers of the slider
SliderAssign(twice) ==
  /\ Ran("assign", Slider, ToString(twice), setSliderValue(World, Slider, twice))
  /\ UNCHANGED <<recent, armed>>

SliderPointerDown(twice) ==
  /\ Ran("pointerdown", Slider, ToString(twice), sliderOnPointerDown(World, Slider, twice))
  /\ UNCHANGED <<recent, armed>>

SliderPointerMove(twice) ==
  /\ Ran("pointermove", Slider, ToString(twice), onPointerMove(World, Slider, twice))
  /\ UNCHANGED <<recent, armed>>

SliderPointerUp ==
  /\ Ran("pointerup", Slider, "none", onPointerUp(World, Slider))
  /\ UNCHANGED <<recent, armed>>

SliderKeyDown(key) ==
  /\ Ran("keydown", Slider, key, sliderOnKeyDown(World, Slider, key))
  /\ UNCHANGED <<recent, armed>>

\* the slider while its value is assigned, dragged and stepped
NextSlider ==
  \/ \E twice \in AssignedHalves : SliderAssign(twice)
  \/ \E twice \in PointerHalves : SliderPointerDown(twice)
  \/ \E twice \in PointerHalves : SliderPointerMove(twice)
  \/ SliderPointerUp
  \/ \E key \in {"Left", "Right"} : SliderKeyDown(key)
  \/ \E w \in {Slider} : Focus(w)
  \/ \E w \in {Slider} : LoseFocus(w)

\* the limits setMin and setMax are called with, and the values of setValue:
\* below, between and above them
NumLimits == {0, 100, 200}

NumValues == {0, 11, 100, 150, 300}

\* calls of the public methods of UINumeric
NumSetValue(v) ==
  /\ Ran("setValue", Numeric, ToString(v), numSetValue(World, Numeric, v))
  /\ UNCHANGED <<recent, armed>>

NumIncrement ==
  /\ Ran("increment", Numeric, "none", increment(World, Numeric))
  /\ UNCHANGED <<recent, armed>>

NumDecrement ==
  /\ Ran("decrement", Numeric, "none", decrement(World, Numeric))
  /\ UNCHANGED <<recent, armed>>

NumSetMin(min) ==
  /\ Ran("setMin", Numeric, ToString(min), numSetMin(World, Numeric, min))
  /\ UNCHANGED <<recent, armed>>

NumSetMax(max) ==
  /\ Ran("setMax", Numeric, ToString(max), numSetMax(World, Numeric, max))
  /\ UNCHANGED <<recent, armed>>

\* the keys that type and commit a buffer
LimitKeys == {"1", ".", "Backspace", "Enter"}

\* the numeric input while its value and its limits are set
NextNumericLimits ==
  \/ \E v \in NumValues : NumSetValue(v)
  \/ NumIncrement
  \/ NumDecrement
  \/ \E min \in NumLimits : NumSetMin(min)
  \/ \E max \in NumLimits : NumSetMax(max)
  \/ \E w \in {Numeric} : Focus(w)
  \/ \E w \in {Numeric} : LoseFocus(w)
  \/ \E key \in LimitKeys : NumericKeyDown(key)

\* the numeric input and the switch it trades focus with
FocusWidgets == {"num", "sw"}

\* the keys that fill, commit and drop the buffer
CommitKeys == {"1", ".", "Backspace", "Enter", "Escape"}

\* the numeric input edited while a focus manager moves focus
NextNumericFocus ==
  \/ \E w \in FocusWidgets : Register(w)
  \/ \E w \in FocusWidgets : SetFocus(w)
  \/ ClearFocus
  \/ \E forward \in {TRUE} : MoveFocus(forward)
  \/ \E w \in {Numeric} : Focus(w)
  \/ \E w \in {Numeric} : LoseFocus(w)
  \/ \E key \in CommitKeys : NumericKeyDown(key)

SpecInput == Init /\ [][NextInput]_vars

SpecDrag == Init /\ [][NextDrag]_vars

SpecState == Init /\ [][NextState]_vars

SpecNumeric == Init /\ [][NextNumeric]_vars

SpecNumericFocus == Init /\ [][NextNumericFocus]_vars

SpecNumericLimits == Init /\ [][NextNumericLimits]_vars

SpecSlider == Init /\ [][NextSlider]_vars

SpecAgree == Init /\ [][NextAgree]_vars

\* C16: a pointer-up toggles the value of a checkbox or switch only if the
\* widget received a pointer-down beforehand and the pointer has not left it
\* since.
C16_ToggleNeedsDownAndNoLeave ==
  [][ \A w \in InputWidgets :
        (Kind(w) \in {"checkbox", "switch"} /\ last'.op = "pointerup" /\ last'.w = w
           /\ wvalue'[w] # wvalue[w])
        => armed[w]
    ]_vars

-----------------------------------------------------------------------------
(* Keyboard activation.                                                    *)

\* the names of the events in a handler's log, in the order emitted
Events(l) == [i \in 1..Len(l) |-> l[i].ev]

DownEvent(w) ==
  CASE Kind(w) = "button" -> "UIButtonDown"
    [] Kind(w) = "checkbox" -> "UICheckboxDown"
    [] Kind(w) = "switch" -> "UISwitchDown"

UpEvent(w) ==
  CASE Kind(w) = "button" -> "UIButtonUp"
    [] Kind(w) = "checkbox" -> "UICheckboxUp"
    [] Kind(w) = "switch" -> "UISwitchUp"

ActivationEvent(w) == IF Kind(w) = "button" THEN "UIButtonClicked" ELSE ChangedEvent(w)

\* the key handler that just ran on w, focused and enabled, emitted evs
KeyStepEmits(w, op, evs) ==
  (focused[w] /\ enabled[w] /\ last'.op = op /\ last'.w = w
     /\ last'.arg \in {"Space", "Enter"})
  => Events(log') = evs

\* C17: on a focused and enabled checkbox or switch, pressing Space or Enter
\* emits the Down event and nothing else, and the release that follows the
\* press emits the Up event and then the activation event (Changed).
C17_KeyPressThenReleaseActivates ==
  [][ \A w \in InputWidgets :
        /\ KeyStepEmits(w, "keydown", <<DownEvent(w)>>)
        /\ (last.op = "keydown" /\ last.w = w /\ last.arg \in {"Space", "Enter"})
             => KeyStepEmits(w, "keyup", <<UpEvent(w), ActivationEvent(w)>>)
    ]_vars

-----------------------------------------------------------------------------
(* The pointer-leave window after a pointer-up.                            *)

\* the timeout of the most recent pointer-up is still pending and not yet
\* due: less than POINTER_LEAVE_DELAY_MS have passed since that pointer-up
LatestUpWindowOpen == timers # <<>> /\ timers[Len(timers)] > 0

\* C18: a pointer-leave delivered to the button less than
\* POINTER_LEAVE_DELAY_MS after the most recent pointer-up on it emits no
\* UIButtonUnhovered and leaves the hovered flag and the state as they were.
C18_LeaveSuppressedInWindow ==
  [][ (last'.op = "pointerleave" /\ last'.w = Button /\ LatestUpWindowOpen)
      => /\ \A i \in 1..Len(log') : log'[i].ev # "UIButtonUnhovered"
         /\ hovered'[Button] = hovered[Button]
         /\ state'[Button] = state[Button]
    ]_vars

-----------------------------------------------------------------------------
(* Input on a disabled widget.                                             *)

\* the pointer and keyboard handlers of a widget, by the "op" they leave in last
InputOps == {"pointerenter", "pointerleave", "pointerdown", "pointerup",
             "pointermove", "keydown", "keyup"}

\* C19: a pointer or keyboard handler that runs on a disabled switch or
\* slider emits no event and leaves all flags of the widget and its value
\* unchanged.
C19_DisabledInputChangesNothing ==
  [][ \A w \in DragWidgets :
        (~enabled[w] /\ last'.w = w /\ last'.op \in InputOps)
        => /\ log' = <<>>
           /\ enabled'[w] = enabled[w]
           /\ focused'[w] = focused[w]
           /\ hovered'[w] = hovered[w]
           /\ isPressed'[w] = isPressed[w]
           /\ dragging'[w] = dragging[w]
           /\ state'[w] = state[w]
           /\ wvalue'[w] = wvalue[w]
    ]_vars

-----------------------------------------------------------------------------
(* The interaction state and the flags.                                    *)

\* the state the flags of a button give by precedence
ButtonStateOf(w) ==
  IF ~enabled[w] THEN "disabled"
  ELSE IF isPressed[w] THEN "pressed"
  ELSE IF hovered[w] THEN "hovered"
  ELSE "idle"

\* the state the flags of a text or numeric input give by precedence
EditStateOf(w) ==
  IF ~enabled[w] THEN "disabled"
  ELSE IF focused[w] THEN "focused"
  ELSE "normal"

\* C20: after every handler or setter the state of the button is disabled,
\* else pressed, else hovered, else idle, by its flags in that order, and
\* the state of the text input and of the numeric input is disabled, else
\* focused, else normal.
C20_StateFollowsFlagPrecedence ==
  \A w \in StateWidgets :
    state[w] = IF Kind(w) = "button" THEN ButtonStateOf(w) ELSE EditStateOf(w)

\* a pressed and hovered button shows "pressed" while the text input, just
\* enabled again after it was disabled with the focus on it, shows "normal"
C20_Witness ==
  /\ enabled[Button] /\ isPressed[Button] /\ hovered[Button] /\ state[Button] = "pressed"
  /\ last = [op |-> "setEnabled", w |-> "txt", arg |-> "true"]
  /\ state["txt"] = "normal"
  /\ focused["num"] /\ state["num"] = "focused"

-----------------------------------------------------------------------------
(* UIRadioGroup: toggles, select / deselect calls, add and remove.         *)

\* the member at selectedIndex, None when selectedIndex names no member
SelectedMember ==
  IF selectedIndex >= 0 /\ selectedIndex < Len(checkboxes)
    THEN checkboxes[selectedIndex + 1] ELSE None

\* C21: in a group that does not allow deselection, toggling the selected,
\* checked member leaves that member checked and selectedIndex unchanged.
C21_ToggleSelectedForcedBack ==
  [][ (~allowDeselect /\ last'.op = "toggle" /\ last'.arg = SelectedMember
         /\ checked[last'.arg])
      => checked'[last'.arg] /\ selectedIndex' = selectedIndex
    ]_vars

\* the selected member of a group without deselection was toggled and is
\* checked, selectedIndex still names it
C21_Witness ==
  /\ ~allowDeselect /\ last.op = "toggle" /\ last.arg = SelectedMember
  /\ checked[last.arg] /\ Len(checkboxes) >= 2 /\ groupLog = <<>>

\* C22: in a group that allows deselection, toggling the selected member,
\* the only checked one, to false leaves selectedIndex = -1 and no member
\* checked.
C22_ToggleSoleSelectedDeselects ==
  [][ (allowDeselect /\ last'.op = "toggle" /\ last'.arg = SelectedMember
         /\ CheckedMembers = {selectedIndex + 1})
      => selectedIndex' = -1 /\ \A i \in 1..Len(checkboxes') : ~checked'[checkboxes'[i]]
    ]_vars

\* C23: a member toggle, select or deselect call that changes selectedIndex
\* emits exactly one UIRadioGroupChanged, with previousIndex the selectedIndex
\* before the call and selectedIndex the one after it.
C23_OneChangedPerSelectionChange ==
  [][ (last'.op \in {"toggle", "select", "deselect"} /\ selectedIndex' # selectedIndex)
      => groupLog' = <<[selectedIndex |-> selectedIndex', previousIndex |-> selectedIndex]>>
    ]_vars

C25_RemoveKeepsSelection ==
  [][ \A c \in Checkboxes :
        (last'.op = "remove" /\ last'.arg = c /\ IndexOf(checkboxes, c) # -1)
        => LET index == IndexOf(checkboxes, c)
           IN  IF index = selectedIndex THEN selectedIndex' = -1
               ELSE /\ selectedIndex' = IF index < selectedIndex THEN selectedIndex - 1
                                        ELSE selectedIndex
                    /\ SelectedMember # None
                         => /\ selectedIndex' >= 0 /\ selectedIndex' < Len(checkboxes')
                            /\ checkboxes'[selectedIndex' + 1] = SelectedMember
    ]_vars

\* the first of three members was removed while the third was selected: it
\* is selected still, at index 1
C25_Witness ==
  /\ last.op = "remove" /\ Len(checkboxes) = 2 /\ last.arg \notin Range(checkboxes)
  /\ \A c \in Checkboxes : listeners[c] = 1
  /\ selectedIndex = 1 /\ checked[checkboxes[2]]

-----------------------------------------------------------------------------
(* UITabbedPanel: removeTab, setActiveTab and addTab.                      *)

\* C26: removeTab of the active tab makes the first remaining tab, in
\* insertion order, the active one, or leaves no active tab when none
\* remains; removeTab of another tab leaves the active tab unchanged.
C26_RemoveTabFallsToFirst ==
  [][ (last'.op = "removeTab" /\ last'.arg \in Range(tabs))
      => IF activeTabId = last'.arg
           THEN IF Len(tabs') > 0
                  THEN /\ activeTabId' = tabs'[1]
                       /\ isTabActive'[tabs'[1]] /\ isVisible'[tabs'[1]]
                  ELSE activeTabId' = Null
           ELSE activeTabId' = activeTabId
    ]_vars

\* the active tab was removed and the first of the two remaining ones took over
C26_Witness ==
  /\ last.op = "removeTab" /\ Len(tabs) = 2 /\ activeTabId = tabs[1]
  /\ tabLog = <<[ev |-> "TabChanged", tabId |-> tabs[1]],
                [ev |-> "TabRemoved", tabId |-> last.arg]>>

\* C27: setActiveTab(id) with id the active tab already, or with an id that
\* is no tab, changes nothing of the panel and emits no event.
C27_SetActiveTabNoOp ==
  [][ (last'.op = "setActiveTab"
         /\ (last'.arg = activeTabId \/ last'.arg \notin Range(tabs)))
      => /\ UNCHANGED <<tabs, activeTabId, isVisible, isTabActive>>
         /\ tabLog' = <<>>
    ]_vars

\* C28: addTab of a new id makes it the active tab when no tab existed or
\* makeActive is true, and otherwise only appends it; addTab of an id that
\* exists changes neither the tabs nor the active tab, makeActive or not.
C28_AddTabActivation ==
  [][ (last'.op \in {"addTab", "addTabActive"})
      => LET tabId == last'.arg
             makeActive == last'.op = "addTabActive"
         IN  IF tabId \in Range(tabs)
               THEN /\ UNCHANGED <<tabs, activeTabId, isVisible, isTabActive>>
                    /\ tabLog' = <<>>
               ELSE /\ tabs' = Append(tabs, tabId)
                    /\ activeTabId' = IF Len(tabs) = 0 \/ makeActive THEN tabId
                                      ELSE activeTabId
    ]_vars

\* addTab of an existing id with makeActive = true, another tab being active
C28_Witness ==
  /\ last.op = "addTabActive" /\ last.arg \in Range(tabs) /\ tabLog = <<>>
  /\ activeTabId # last.arg /\ Len(tabs) = 2

\* the keystrokes that edit the buffer of a UINumeric or move its cursor
NumericEditingKeys == {"1", ".", "Backspace", "Delete", "Left", "Right", "Home", "End"}

\* C29: focusing a UINumeric, any editing keystroke (a character, Backspace,
\* Delete, a cursor move) and Escape each leave the committed value as it was
\* and emit no value-changed event, and after Escape on the focused input the
\* displayed text is the formatted committed value again; so the committed
\* value after focus, edits and Escape is the one before focus.
C29_EscapeRestoresCommitted ==
  [][ (/\ last'.w = Numeric
       /\ \/ last'.op \in {"focus", "pointerdown"}
          \/ last'.op = "keydown" /\ last'.arg \in NumericEditingKeys \cup {"Escape"})
      => /\ wvalue'[Numeric] = wvalue[Numeric]
         /\ \A i \in 1..Len(log') : log'[i].ev # "UINumericValueChanged"
         /\ (last'.op = "keydown" /\ last'.arg = "Escape"
               /\ enabled[Numeric] /\ focused[Numeric])
              => /\ ~edit'.isEditing
                 /\ getDisplayText' = formatNumber(wvalue[Numeric])
    ]_vars

\* Escape was pressed on the focused input, whose committed value is not the
\* initial one, and the buffer is dropped
C29_Witness ==
  /\ last = [op |-> "keydown", w |-> Numeric, arg |-> "Escape"]
  /\ enabled[Numeric] /\ focused[Numeric]
  /\ wvalue[Numeric] = NumStep
  /\ ~edit.isEditing /\ edit.inputText = formatNumber(NumStep)

\* Enter is pressed on the enabled, focused UINumeric whose buffer parses
EnterOnValidBuffer ==
  /\ last' = [op |-> "keydown", w |-> Numeric, arg |-> "Enter"]
  /\ enabled[Numeric] /\ focused[Numeric]
  /\ parseNumber(edit.inputText) # NaN

\* C30: Enter on a focused UINumeric whose buffer holds valid numeric text
\* sets the committed value to the parsed buffer clamped to [min, max] and
\* emits exactly one value-changed event and exactly one submit event.
C30_EnterEmitsOneChanged ==
  [][ EnterOnValidBuffer
      => /\ wvalue'[Numeric] = numClampValue(parseNumber(edit.inputText))
         /\ Emitted("UINumericValueChanged")' = 1
         /\ Emitted("UINumericSubmit")' = 1
    ]_vars

\* C30, amended: Enter on a focused UINumeric whose buffer holds valid numeric
\* text sets the committed value to the parsed buffer clamped to [min, max]
\* and emits exactly one submit event, and exactly one value-changed event
\* when the clamped value differs from the committed one, none when it is the
\* committed value already.
C30_EnterEmitsChangedIfDifferent ==
  [][ EnterOnValidBuffer
      => /\ wvalue'[Numeric] = numClampValue(parseNumber(edit.inputText))
         /\ Emitted("UINumericValueChanged")'
              = IF numClampValue(parseNumber(edit.inputText)) # wvalue[Numeric] THEN 1 ELSE 0
         /\ Emitted("UINumericSubmit")' = 1
    ]_vars

\* Enter committed a buffer above max: the value changed to max, with one
\* value-changed and one submit event
C30_Witness ==
  /\ last = [op |-> "keydown", w |-> Numeric, arg |-> "Enter"]
  /\ enabled[Numeric] /\ focused[Numeric]
  /\ wvalue[Numeric] = NumMax
  /\ Events(log) = <<"UINumericValueChanged", "UINumericSubmit">>
  /\ ~edit.isEditing /\ edit.inputText = formatNumber(NumMax)

\* the focused UINumeric loses focus in this step, its buffer being valid
\* numeric text
FocusLostOnValidBuffer ==
  /\ focused[Numeric] /\ ~focused'[Numeric]
  /\ parseNumber(edit.inputText) # NaN

\* C31: when a focused UINumeric whose buffer holds valid numeric text loses
\* focus (by loseFocus, by the focus manager moving focus to another widget,
\* or by clearFocus), its committed value becomes the parsed buffer clamped
\* to [min, max], it leaves editing mode and it displays the formatted
\* committed value.
C31_FocusLossCommitsBuffer ==
  [][ FocusLostOnValidBuffer
      => /\ wvalue'[Numeric] = numClampValue(parseNumber(edit.inputText))
         /\ ~edit'.isEditing
         /\ getDisplayText' = formatNumber(wvalue'[Numeric])
    ]_vars

\* C31, amended: when a focused UINumeric whose buffer holds valid numeric
\* text loses focus, its committed value becomes the parsed buffer clamped
\* to [min, max] if it was in editing mode and stays as it is if it was not
\* (the buffer is then the formatted text of a value committed already); in
\* both cases it leaves editing mode and displays the formatted committed
\* value.
C31_FocusLossCommitsWhenEditing ==
  [][ FocusLostOnValidBuffer
      => /\ wvalue'[Numeric] = IF edit.isEditing
                                 THEN numClampValue(parseNumber(edit.inputText))
                                 ELSE wvalue[Numeric]
         /\ ~edit'.isEditing
         /\ getDisplayText' = formatNumber(wvalue'[Numeric])
    ]_vars

\* the focus manager moved focus from the numeric input to the switch, and
\* the buffer was committed as a new value, max
C31_Witness ==
  /\ last = [op |-> "setFocus", w |-> "sw", arg |-> "none"]
  /\ ~focused[Numeric] /\ focused["sw"]
  /\ wvalue[Numeric] = NumMax
  /\ Events(log) = <<"UINumericValueChanged", "UINumericUnfocused", "UISwitchFocused">>
  /\ ~edit.isEditing /\ edit.inputText = formatNumber(NumMax)

\* the buffer of the focused UINumeric does not parse, and this step commits
\* it: Enter is pressed or the input loses focus
CommitOfInvalidBuffer ==
  /\ enabled[Numeric] /\ focused[Numeric]
  /\ parseNumber(edit.inputText) = NaN
  /\ \/ last' = [op |-> "keydown", w |-> Numeric, arg |-> "Enter"]
     \/ ~focused'[Numeric]

\* C32: committing, by Enter or by focus loss, a buffer that does not parse
\* as a number leaves the committed value unchanged, emits no value-changed
\* event and restores the display to the last committed value; the handler
\* runs to its end (it emits the event that follows the commit: submit after
\* Enter, unfocused after a focus loss).
C32_InvalidBufferDiscarded ==
  [][ CommitOfInvalidBuffer
      => /\ wvalue'[Numeric] = wvalue[Numeric]
         /\ Emitted("UINumericValueChanged")' = 0
         /\ ~edit'.isEditing
         /\ edit'.inputText = formatNumber(wvalue[Numeric])
         /\ getDisplayText' = formatNumber(wvalue[Numeric])
         /\ IF focused'[Numeric] THEN Emitted("UINumericSubmit")' = 1
                                 ELSE Emitted("UINumericUnfocused")' = 1
    ]_vars

\* Enter discarded a buffer that did not parse: the value 0.11 stays, no
\* value-changed event, and the buffer is the formatted value again (a
\* buffer that parses would have stayed as typed or changed the value)
C32_Witness ==
  /\ last = [op |-> "keydown", w |-> Numeric, arg |-> "Enter"]
  /\ enabled[Numeric] /\ focused[Numeric]
  /\ wvalue[Numeric] = 11
  /\ Events(log) = <<"UINumericSubmit">>
  /\ ~edit.isEditing /\ edit.inputText = <<"0", ".", "1">>

C34_SliderValueSteppedInRange ==
  [][ (last'.w = Slider /\ (last'.op = "assign" \/ wvalue'[Slider] # wvalue[Slider]))
      => /\ SliderMin <= wvalue'[Slider] /\ wvalue'[Slider] <= SliderMax
         /\ wvalue'[Slider] % SliderStep = 0
    ]_vars

\* C35: whenever currentTabIndex is the key of a registered widget that is
\* enabled, that widget reports focused = true: the manager's focused widget
\* and the widget's own flag agree after any sequence of manager calls,
\* setEnabled calls and key presses.
C35_ManagerFocusAgreesWithWidget ==
  (currentTabIndex \in DOMAIN components /\ enabled[components[currentTabIndex]])
    => focused[components[currentTabIndex]]

\* C36: with n >= 2 widgets registered and all of them enabled, a
\* moveFocus(true) call moves the manager to the next registered index in
\* ascending cyclic order (the lowest when nothing is focused) and the widget
\* under it reports focused = true; the order being one cycle through the n
\* indices, n consecutive calls give focus to each registered widget exactly
\* once and navigation never stalls on one widget.
C36_TabVisitsEachWidget ==
  [][ (/\ last'.op = "moveFocus" /\ last'.arg = Bool(TRUE)
       /\ Cardinality(RegisteredKeys) >= 2
       /\ \A w \in Range(components) : enabled[w])
      => /\ currentTabIndex' = ExpectedIndex(TRUE)
         /\ focused'[components[ExpectedIndex(TRUE)]]
         /\ \A w \in Range(components) :
              w # components[ExpectedIndex(TRUE)] => ~focused'[w]
    ]_vars

\* C37: after the constructor and after every UIRadioGroup operation,
\* selectedIndex is -1 or a valid member index (0 <= selectedIndex < count),
\* and whenever it is a valid index the member at that index is checked.
C37_SelectedIndexValidAndChecked ==
  \/ selectedIndex = -1
  \/ /\ 0 <= selectedIndex /\ selectedIndex < Len(checkboxes)
     /\ checked[checkboxes[selectedIndex + 1]]

\* what one call leaves behind, for every call the group accepts in this state
CallsOfGroup ==
  {toggle(Group, c) : c \in Range(checkboxes)}
    \cup {add(Group, c) : c \in {x \in ChainBoxes : listeners[x] <= MaxListeners}}
    \cup {select(Group, index) : index \in -1..Cardinality(ChainBoxes)}
    \cup {deselect(Group)}

\* C38: every member toggle and every add, select or deselect call on the
\* group ends: the chain of UICheckboxChanged notifications it sets off
\* between the group and its checkboxes does not use up the call stack
C38_NotificationChainsEnd == \A g \in CallsOfGroup : ~Overflowed(g)

\* the button is at rest as far as the pointer goes: not hovered, and not
\* shown as hovered
ButtonUnhovered == ~hovered[Button] /\ state[Button] # "hovered"

\* C39: a pointer-leave delivered to an enabled button that no pointer-enter
\* follows leads to a button that reports hovered = false and a state other
\* than hovered, once the pending timeouts have run
C39_LeaveLeadsToUnhovered ==
  (last.op = "pointerleave" /\ last.w = Button /\ enabled[Button])
    ~> (ButtonUnhovered \/ last.op = "pointerenter")

\* C40: after every operation of the tabbed panel the active tab id is null
\* exactly when the panel has no tabs, and otherwise it is the id of a tab
\* of the panel
C40_ActiveTabIsATabOfThePanel ==
  /\ (activeTabId = Null) <=> (tabs = <<>>)
  /\ activeTabId # Null => activeTabId \in Range(tabs)

\* the last tab of the panel, the active one, was removed
C40_Witness ==
  /\ last.op = "removeTab" /\ tabs = <<>> /\ activeTabId = Null
  /\ tabLog = <<[ev |-> "TabRemoved", tabId |-> last.arg]>>

====
